---------------------------- MODULE Spec2Model ----------------------------
(***************************************************************************)
(* Model of chat_cli: the streaming client (client.py) and its consumer    *)
(* (main.py).                                                              *)
(*                                                                         *)
(* Text values.  Identifiers, names, content texts, type tags and finish   *)
(* reasons are atomic strings; None is the marker string None and ""       *)
(* is the empty string, so Python truthiness of an optional text is        *)
(* "neither None nor empty".  Argument fragments and fault messages are    *)
(* sequences of one-character strings, because the code concatenates the   *)
(* former and searches the latter; their None is the one-element sequence  *)
(* NoneSeq, which no text equals.                                          *)
(***************************************************************************)
EXTENDS Integers, Sequences, FiniteSets, TLC

VARIABLES
    \* --- one _ToolBuffer fed by merge_delta (SpecMerge) ---
    mbuf,        \* the _ToolBuffer instance
    mfrags,      \* history: the arguments value each merged delta supplied
    mid,         \* history: the last non-empty id a delta supplied, or None
    mtype,       \* history: the last non-empty type supplied, or None
    mname,       \* history: the last non-empty name supplied, or None
    mtwice,      \* the buffer, had the last delta been merged twice in a row
    \* stream_chat building its request (SpecTools)
    tools_arg,       \* the tools argument: given or None, and the specs
    prepared,        \* what _prepare_tools returned
    tools_request,   \* the request dict after line 108
    ppc,             \* "idle", "prepare", "prepared", "built", "raised"
    \* --- the retry policy on a fault message (SpecRetry) ---
    exc_text,    \* the fault text, str(exc)
    npieces,     \* how many pieces the text was assembled from
    retry,       \* "undecided", or the policy's answer "yes" / "no"
    \* --- one stream_chat call and its consumer (Spec) ---
    pc,            \* where the generator stands (see the actions)
    exc,           \* the exception in flight, or the one the caller received
    request,       \* the request dict of stream_chat
    calls,         \* the completions.create calls issued, in order
    stream,        \* the streaming transport: "none", "open", "closed"
    items,         \* how much the transport has delivered (bounded by MaxItems)
    chunk_read,    \* history: the stream has delivered a chunk
    content,       \* delta.content of the choice being processed, until used
    cur_message,   \* the message of the completion being processed
    tool_buffers,  \* the slot map: <<[index, buffer]>> in insertion order
    finish_reasons,\* the finish reasons collected for the current chunk
    flush_pos,     \* position of the flush loop in tool_buffers.values()
    pending,       \* events of the current completion message still to yield
    events,        \* the events the caller has received, in order
    \* history variables of the stream
    content_seen,  \* the non-empty content texts of the deltas, as they arrived
    due,           \* slot indices that received a delta since the last flush
    addressed,     \* the tool deltas merged since the last flush, in order
    flushed_idx,   \* slot indices that some flush has emitted
    emitted_idx,   \* slot indices of the tool_call events of the current chunk
    chunk_tool_calls, \* some choice of the current chunk carries "tool_calls"
    terminal_seen, \* some choice so far carried a terminal finish reason
    after_terminal,\* a chunk was read after a terminal finish reason was seen
    ever_finish,   \* some choice so far carried a non-empty finish reason
    exhausted,     \* the stream ended by exhaustion
    stream_fault,  \* the fault that ended the streaming attempt, if any
    ns_start,      \* Len(events) when the non-streaming call began, or -1
    msg_start,     \* Len(events) when the current completion message began
    \* --- the conversation loop of main (SpecTurn) ---
    no_history,           \* args.no_history
    tpc,                  \* where main stands (see the actions)
    session_messages,     \* session.messages
    history_checkpoint,   \* history_checkpoint of main
    collected_tool_calls, \* the tool calls _stream_response returned
    tool_pos,             \* position of _process_tool_calls in them
    farewell_requested,   \* tools._farewell_requested
    turn_exc,             \* the exception that aborted the turn
    \* history variables of the loop
    turn,          \* the number of the current turn
    responses,     \* outcomes of stream_chat calls so far in the session
    snapshot,      \* session.messages when the checkpoint was taken
    rounds,        \* responses with tool calls in the current turn
    last_response, \* "none", or the kind of the last response of the turn
    aborted,       \* the last turn was aborted and rolled back
    farewell_turn  \* history: the turn that last ran register_farewell, or 0

mergeVars == <<mbuf, mfrags, mid, mtype, mname, mtwice>>

retryVars == <<exc_text, npieces, retry>>

streamVars ==
    <<pc, exc, request, calls, stream, items, chunk_read, content,
      cur_message, tool_buffers, finish_reasons, flush_pos, pending, events,
      content_seen, due, addressed, flushed_idx, emitted_idx,
      chunk_tool_calls, terminal_seen,
      after_terminal, ever_finish, exhausted, stream_fault, ns_start,
      msg_start>>

turnVars ==
    <<no_history, tpc, session_messages, history_checkpoint,
      collected_tool_calls, tool_pos, farewell_requested, turn_exc, turn,
      responses, snapshot, rounds, last_response, aborted, farewell_turn>>

toolsVars == <<tools_arg, prepared, tools_request, ppc>>

vars == <<mergeVars, retryVars, streamVars, turnVars, toolsVars>>

-----------------------------------------------------------------------------
(* Python values *)

None == "<None>"
NoneSeq == <<None>>

\* bool(x) of an optional atomic text
Truthy(v) == v # None /\ v # ""

\* bool(x) of an optional character sequence
TruthySeq(v) == v # NoneSeq /\ v # <<>>

RECURSIVE Concat(_)
\* "".join(parts) of a sequence of character sequences
Concat(parts) ==
    IF parts = <<>> THEN <<>> ELSE Head(parts) \o Concat(Tail(parts))

-----------------------------------------------------------------------------
(* _ToolBuffer *)

\* _ToolBuffer(): the dataclass defaults
NewToolBuffer == [id |-> "", type |-> "function", name |-> "", arguments |-> <<>>]

\* A tool-call delta as merge_delta sees it.  shape is the Python shape of
\* the delta: "dict", "obj" (an SDK object), or "none" (None or {}: falsy).
\* fn is the shape of its function member: "none" when absent or None,
\* else the delta's own shape.  index is the slot the server addresses.
ToolDelta(shape, index, id, type, fn, name, arguments) ==
    [shape |-> shape, index |-> index, id |-> id, type |-> type,
     fn |-> fn, name |-> name, arguments |-> arguments]

\* the dict branch of merge_delta, lines 43-56
merge_dict(self, delta) ==
    LET b1 == IF Truthy(delta.id) THEN [self EXCEPT !.id = delta.id] ELSE self
        b2 == IF Truthy(delta.type) THEN [b1 EXCEPT !.type = delta.type] ELSE b1
        \* function = delta.get("function") or {}
        isDict == delta.fn \in {"none", "dict"}
        name == IF delta.fn = "none" THEN None ELSE delta.name
        arguments == IF delta.fn = "none" THEN NoneSeq ELSE delta.arguments
        b3 == IF isDict /\ Truthy(name) THEN [b2 EXCEPT !.name = name] ELSE b2
        b4 == IF isDict /\ TruthySeq(arguments)
              THEN [b3 EXCEPT !.arguments = b3.arguments \o arguments]
              ELSE b3
    IN  b4

\* the attribute branch of merge_delta, lines 58-68
merge_obj(self, delta) ==
    LET b1 == IF Truthy(delta.id) THEN [self EXCEPT !.id = delta.id] ELSE self
        b2 == IF Truthy(delta.type) THEN [b1 EXCEPT !.type = delta.type] ELSE b1
    IN  IF delta.fn = "none" THEN b2
        ELSE LET b3 == IF Truthy(delta.name)
                       THEN [b2 EXCEPT !.name = delta.name] ELSE b2
             IN  IF TruthySeq(delta.arguments)
                 THEN [b3 EXCEPT !.arguments = b3.arguments \o delta.arguments]
                 ELSE b3

\* a slip that assigns the fragment instead of appending it
merge_delta_replacing(self, delta) ==
    IF delta.shape = "none" \/ delta.fn = "none" \/ ~TruthySeq(delta.arguments)
    THEN self
    ELSE [self EXCEPT !.arguments = delta.arguments]

\* a slip that keeps the first id a buffer received
merge_delta_first_id(self, delta) ==
    LET merged == IF delta.shape = "none" THEN self
                  ELSE IF delta.shape = "dict" THEN merge_dict(self, delta)
                  ELSE merge_obj(self, delta)
    IN  IF Truthy(self.id) THEN [merged EXCEPT !.id = self.id] ELSE merged

\* a slip that absorbs a repeated fragment: arguments that the text already
\* ends with are not appended again
merge_delta_deduplicating(self, delta) ==
    LET merged == IF delta.shape = "none" THEN self
                  ELSE IF delta.shape = "dict" THEN merge_dict(self, delta)
                  ELSE merge_obj(self, delta)
        added == Len(merged.arguments) - Len(self.arguments)
        n == Len(self.arguments)
    IN  IF added > 0 /\ n >= added
           /\ SubSeq(self.arguments, n - added + 1, n)
                = SubSeq(merged.arguments, n + 1, n + added)
        THEN [merged EXCEPT !.arguments = self.arguments]
        ELSE merged

\* _ToolBuffer.merge_delta
merge_delta(self, delta) ==
    IF delta.shape = "none" THEN self
    ELSE IF delta.shape = "dict" THEN merge_dict(self, delta)
    ELSE merge_obj(self, delta)

\* _ToolBuffer.to_event
to_event(self) ==
    [type |-> "tool_call",
     id |-> self.id, calltype |-> self.type,
     name |-> self.name, arguments |-> self.arguments]

-----------------------------------------------------------------------------
(* SpecMerge: one buffer, any sequence of deltas *)

MaxMerges == 3

MergeIds == {None, "", "call_a", "call_b"}
MergeTypes == {None, "function", "custom"}
MergeNames == {None, "", "get_current_time"}
ArgFragments == {NoneSeq, <<>>, <<"{">>, <<"x", "}">>}

\* every delta shape merge_delta distinguishes
MergeDeltas ==
    {ToolDelta("none", 0, None, None, "none", None, NoneSeq)}
    \cup {ToolDelta(s, 0, i, t, "none", None, NoneSeq) :
            s \in {"dict", "obj"}, i \in MergeIds, t \in MergeTypes}
    \cup {ToolDelta(s, 0, i, t, s, n, a) :
            s \in {"dict", "obj"}, i \in MergeIds, t \in MergeTypes,
            n \in MergeNames, a \in ArgFragments}

\* the arguments fragment a delta carries ("" when it carries none)
FragmentOf(delta) ==
    IF delta.shape = "none" \/ delta.fn = "none" \/ delta.arguments = NoneSeq
    THEN <<>>
    ELSE delta.arguments

\* the non-empty value a delta supplies for a field of the buffer, or None
Supplied(delta, value) ==
    IF delta.shape # "none" /\ Truthy(value) THEN value ELSE None

SuppliedName(delta) ==
    IF delta.fn = "none" THEN None ELSE Supplied(delta, delta.name)

InitMerge ==
    /\ mbuf = NewToolBuffer
    /\ mfrags = <<>>
    /\ mid = None
    /\ mtype = None
    /\ mname = None
    /\ mtwice = NewToolBuffer

\* buffer.merge_delta(delta) on the next delta
MergeStep ==
    /\ Len(mfrags) < MaxMerges
    /\ \E delta \in MergeDeltas :
        /\ mbuf' = merge_delta(mbuf, delta)
        /\ mtwice' = merge_delta(merge_delta(mbuf, delta), delta)
        /\ mfrags' = Append(mfrags, FragmentOf(delta))
        /\ mid' = IF Supplied(delta, delta.id) # None
                  THEN delta.id ELSE mid
        /\ mtype' = IF Supplied(delta, delta.type) # None
                    THEN delta.type ELSE mtype
        /\ mname' = IF SuppliedName(delta) # None
                    THEN delta.name ELSE mname
    /\ UNCHANGED <<retryVars, streamVars, turnVars, toolsVars>>

NextMerge == MergeStep

-----------------------------------------------------------------------------
(* C3: after N deltas were merged into one buffer, its arguments text is
   the concatenation of the N argument fragments in arrival order. *)
C3_ArgumentsConcatenated == mbuf.arguments = Concat(mfrags)

\* three fragments, two of them non-empty and different, were merged
C3_Witness ==
    /\ Len(mfrags) = 3
    /\ mfrags[1] = <<"{">>
    /\ mfrags[3] = <<"x", "}">>
    /\ mbuf.arguments = <<"{", "x", "}">>

-----------------------------------------------------------------------------
(* Fault messages: character sequences *)

UpperChars ==
    <<"A", "B", "C", "D", "E", "F", "G", "H", "I", "J", "K", "L", "M",
    "N", "O", "P", "Q", "R", "S", "T", "U", "V", "W", "X", "Y", "Z">>
LowerChars ==
    <<"a", "b", "c", "d", "e", "f", "g", "h", "i", "j", "k", "l", "m",
    "n", "o", "p", "q", "r", "s", "t", "u", "v", "w", "x", "y", "z">>

\* str.lower() of one ASCII character
LowerChar(c) ==
    IF \E i \in 1..Len(UpperChars) : UpperChars[i] = c
    THEN LowerChars[CHOOSE i \in 1..Len(UpperChars) : UpperChars[i] = c]
    ELSE c

\* message.lower()
Lower(s) == [i \in 1..Len(s) |-> LowerChar(s[i])]

\* sub in s
Contains(s, sub) ==
    \E i \in 0..(Len(s) - Len(sub)) : SubSeq(s, i + 1, i + Len(sub)) = sub

\* "stream"
KwStream ==
    <<"s", "t", "r", "e", "a", "m">>
\* "not supported"
KwNotSupported ==
    <<"n", "o", "t", " ", "s", "u", "p", "p", "o", "r", "t", "e", "d">>
\* "unsupported"
KwUnsupported ==
    <<"u", "n", "s", "u", "p", "p", "o", "r", "t", "e", "d">>
\* "does not support"
KwDoesNotSupport ==
    <<"d", "o", "e", "s", " ", "n", "o", "t", " ", "s", "u", "p", "p",
    "o", "r", "t">>
\* "unrecognized request argument"
KwUnrecognized ==
    <<"u", "n", "r", "e", "c", "o", "g", "n", "i", "z", "e", "d", " ",
    "r", "e", "q", "u", "e", "s", "t", " ", "a", "r", "g", "u", "m", "e",
    "n", "t">>

\* the keywords tuple of _should_retry_without_stream, lines 193-198
keywords == {KwNotSupported, KwUnsupported, KwDoesNotSupport, KwUnrecognized}

\* a slip that tests the message as given, without lower-casing it
should_retry_case_sensitive(message) ==
    /\ Contains(message, KwStream)
    /\ \E keyword \in keywords : Contains(message, keyword)

\* ChatClient._should_retry_without_stream
should_retry_without_stream(message) ==
    LET lowered == Lower(message)
    IN  IF ~Contains(lowered, KwStream) THEN FALSE
        ELSE \E keyword \in keywords : Contains(lowered, keyword)

\* "Unrecognized request argument: stream"
MsgUnrecognizedStream ==
    <<"U", "n", "r", "e", "c", "o", "g", "n", "i", "z", "e", "d", " ",
    "r", "e", "q", "u", "e", "s", "t", " ", "a", "r", "g", "u", "m", "e",
    "n", "t", ":", " ", "s", "t", "r", "e", "a", "m">>
\* "invalid api key"
MsgInvalidApiKey ==
    <<"i", "n", "v", "a", "l", "i", "d", " ", "a", "p", "i", " ", "k",
    "e", "y">>
\* "model not found"
MsgModelNotFound ==
    <<"m", "o", "d", "e", "l", " ", "n", "o", "t", " ", "f", "o", "u",
    "n", "d">>

-----------------------------------------------------------------------------
(* SpecRetry: the retry policy on messages assembled from pieces *)

MaxPieces == 3

\* "Unrecognized request argument: "
PcUnrecognized ==
    <<"U", "n", "r", "e", "c", "o", "g", "n", "i", "z", "e", "d", " ",
    "r", "e", "q", "u", "e", "s", "t", " ", "a", "r", "g", "u", "m", "e",
    "n", "t", ":", " ">>
\* "STREAM"
PcSTREAM ==
    <<"S", "T", "R", "E", "A", "M">>
\* "Strea"
PcStrea ==
    <<"S", "t", "r", "e", "a">>
\* "m "
PcM ==
    <<"m", " ">>
\* "is not"
PcNot ==
    <<"i", "s", " ", "n", "o", "t">>
\* " supported"
PcSupported ==
    <<" ", "s", "u", "p", "p", "o", "r", "t", "e", "d">>
\* " Unsupported"
PcUnsupported ==
    <<" ", "U", "n", "s", "u", "p", "p", "o", "r", "t", "e", "d">>
\* " does not support "
PcDoesNot ==
    <<" ", "d", "o", "e", "s", " ", "n", "o", "t", " ", "s", "u", "p",
    "p", "o", "r", "t", " ">>

MsgPieces ==
    {PcUnrecognized, KwStream, PcSTREAM, PcStrea, PcM, PcNot, PcSupported,
     PcUnsupported, PcDoesNot, MsgInvalidApiKey, MsgModelNotFound}

InitRetry ==
    /\ exc_text = <<>>
    /\ npieces = 0
    /\ retry = "undecided"

\* the transport's fault text grows by one piece
AppendPiece ==
    /\ retry = "undecided"
    /\ npieces < MaxPieces
    /\ \E p \in MsgPieces : exc_text' = exc_text \o p
    /\ npieces' = npieces + 1
    /\ UNCHANGED <<retry, mergeVars, streamVars, turnVars, toolsVars>>

\* self._should_retry_without_stream(str(exc))
DecideRetry ==
    /\ retry = "undecided"
    /\ retry' = IF should_retry_without_stream(exc_text) THEN "yes" ELSE "no"
    /\ UNCHANGED <<exc_text, npieces, mergeVars, streamVars, turnVars,
                   toolsVars>>

-----------------------------------------------------------------------------
(* The request: stream_chat lines 100-109, _prepare_tools, _schema_to_model *)

\* tools.py _CURRENT_TIME_TOOL.to_openai()
CurrentTimeSpec ==
    [type |-> "function", name |-> "get_current_time",
     description |-> "current time",
     properties |-> <<[name |-> "timezone", type |-> "string"]>>,
     required |-> {}]

\* tools.py _FAREWELL_TOOL.to_openai()
FarewellSpec ==
    [type |-> "function", name |-> "register_farewell",
     description |-> "farewell",
     properties |-> <<[name |-> "note", type |-> "string"]>>,
     required |-> {}]

\* tools.list_tool_specs()
list_tool_specs == <<CurrentTimeSpec, FarewellSpec>>

\* ChatClient._json_type_to_python
json_type_to_python(type_name) ==
    LET key == IF Truthy(type_name) THEN type_name ELSE "string"
    IN  CASE key = "string" -> "str"
          [] key = "number" -> "float"
          [] key = "integer" -> "int"
          [] key = "boolean" -> "bool"
          [] key = "array" -> "list"
          [] key = "object" -> "dict"
          [] OTHER -> "str"

\* ChatClient._schema_to_model: the fields of the created model.  A field is
\* mandatory (no default) iff its name is in required.
schema_to_model(name, properties, required) ==
    LET fields == [i \in 1..Len(properties) |->
                     [name |-> properties[i].name,
                      type |-> json_type_to_python(properties[i].type),
                      mandatory |-> properties[i].name \in required]]
    IN  [model_name |-> <<"ToolArgs_", name>>,
         fields |-> IF fields = <<>>
                    THEN <<[name |-> "_unused", type |-> "Optional[str]",
                            mandatory |-> FALSE]>>
                    ELSE fields]

RECURSIVE prepare_tools(_)
\* ChatClient._prepare_tools: the wire tools, in input order
prepare_tools(tools) ==
    IF tools = <<>> THEN <<>>
    ELSE LET tool == Head(tools)
         IN  IF tool.type # "function" \/ ~Truthy(tool.name)
             THEN prepare_tools(Tail(tools))
             ELSE <<[name |-> tool.name, description |-> tool.description,
                     model |-> schema_to_model(tool.name, tool.properties,
                                               tool.required)]>>
                  \o prepare_tools(Tail(tools))

\* the request dict of stream_chat, lines 100-109.  keys are the keys the
\* dict holds; tools and tool_choice are read only when they are keys.
build_request(messages, tools) ==
    LET prepared_tools == prepare_tools(tools)
    IN  [keys |-> {"model", "messages", "temperature"}
                  \cup (IF prepared_tools # <<>>
                        THEN {"tools", "tool_choice"} ELSE {}),
         model |-> "config.model",
         messages |-> messages,
         temperature |-> "config.temperature",
         tools |-> prepared_tools,
         tool_choice |-> IF prepared_tools # <<>> THEN "auto" ELSE None]

EmptyRequest ==
    [keys |-> {}, model |-> None, messages |-> None, temperature |-> None,
     tools |-> <<>>, tool_choice |-> None]

\* completions.create(stream=True, **request), line 112
StreamCall(req) == [stream |-> TRUE, body |-> req]

\* a slip that leaves the tools out of the retried request
NonStreamCall_without_tools(req) ==
    [stream |-> FALSE,
     body |-> [req EXCEPT !.keys = @ \ {"tools", "tool_choice"},
                          !.tools = <<>>, !.tool_choice = None]]

\* completions.create(stream=False, **request), line 161
NonStreamCall(req) == [stream |-> FALSE, body |-> req]

-----------------------------------------------------------------------------
(* SpecTools: stream_chat builds its request from a list of tool specs *)

MaxTools == 2

\* the parameters of a tool spec: no properties, one optional property, or
\* two properties of which the first is required
ToolParameters ==
    {[properties |-> <<>>, required |-> {}],
     [properties |-> <<[name |-> "timezone", type |-> "string"]>>,
      required |-> {}],
     [properties |-> <<[name |-> "count", type |-> "integer"],
                       [name |-> "note", type |-> None]>>,
      required |-> {"count"}]}

\* tool specs as dicts: type and function.name may be missing (None) or
\* empty, parameters may have no properties
ToolSpecs ==
    {[type |-> t, name |-> n, description |-> "d",
      properties |-> ps.properties, required |-> ps.required] :
        t \in {None, "function", "custom"},
        n \in {None, "", "get_current_time", "register_farewell"},
        ps \in ToolParameters}

\* the lists of at most n tool specs
ToolSpecLists(n) == UNION {[1..k -> ToolSpecs] : k \in 0..n}

InitTools ==
    /\ tools_arg = [given |-> FALSE, specs |-> <<>>]
    /\ prepared = <<>>
    /\ tools_request = EmptyRequest
    /\ ppc = "idle"

\* stream_chat(messages, tools=...) is called: tools is None (not given) or
\* a list of tool specs
StreamChatCalled ==
    /\ ppc = "idle"
    /\ \E given \in BOOLEAN, specs \in ToolSpecLists(MaxTools) :
        /\ ~given => specs = <<>>
        /\ tools_arg' = [given |-> given, specs |-> specs]
    /\ ppc' = "prepare"
    /\ UNCHANGED <<mergeVars, retryVars, streamVars, turnVars, prepared,
                   tools_request>>

\* _prepare_tools, lines 202-203: tools is None or empty
PrepareNothing ==
    /\ ppc = "prepare"
    /\ ~tools_arg.given \/ tools_arg.specs = <<>>
    /\ prepared' = <<>>
    /\ ppc' = "prepared"
    /\ UNCHANGED <<mergeVars, retryVars, streamVars, turnVars, tools_arg,
                   tools_request>>

\* a spec _prepare_tools turns into a wire tool: lines 207-212
IsWireable(tool) == tool.type = "function" /\ tool.name \notin {None, ""}

\* _schema_to_model hands create_model the field "_unused", lines 233-237
NeedsPlaceholder(specs) ==
    \E i \in 1..Len(specs) : IsWireable(specs[i]) /\ specs[i].properties = <<>>

\* the wire tools when create_model leaves out the fields whose names start
\* with an underscore
without_underscore_fields(wire_tools) ==
    [i \in 1..Len(wire_tools) |->
        IF wire_tools[i].model.fields[1].name = "_unused"
        THEN [wire_tools[i] EXCEPT !.model.fields = <<>>]
        ELSE wire_tools[i]]

\* _prepare_tools, lines 205-217: every create_model call takes the fields
\* as they are given
PrepareTools ==
    /\ ppc = "prepare"
    /\ tools_arg.given
    /\ tools_arg.specs # <<>>
    /\ prepared' = prepare_tools(tools_arg.specs)
    /\ ppc' = "prepared"
    /\ UNCHANGED <<mergeVars, retryVars, streamVars, turnVars, tools_arg,
                   tools_request>>

\* _prepare_tools, lines 205-217, when line 237 passes create_model the
\* field name "_unused".  The repository does not say which pydantic it runs
\* with, and what create_model does with a field name that starts with an
\* underscore is the library's: pydantic 1 warns and ignores the field
PrepareToolsFieldIgnored ==
    /\ ppc = "prepare"
    /\ tools_arg.given
    /\ NeedsPlaceholder(tools_arg.specs)
    /\ prepared' = without_underscore_fields(prepare_tools(tools_arg.specs))
    /\ ppc' = "prepared"
    /\ UNCHANGED <<mergeVars, retryVars, streamVars, turnVars, tools_arg,
                   tools_request>>

\* ... and pydantic 2 raises NameError("Fields must not use names with
\* leading underscores"); line 105 is outside the try statement of
\* stream_chat, so the NameError leaves stream_chat as it is
PrepareToolsRaises ==
    /\ ppc = "prepare"
    /\ tools_arg.given
    /\ NeedsPlaceholder(tools_arg.specs)
    /\ ppc' = "raised"
    /\ UNCHANGED <<mergeVars, retryVars, streamVars, turnVars, tools_arg,
                   prepared, tools_request>>

\* stream_chat, lines 100-109
RequestBuilt ==
    /\ ppc = "prepared"
    /\ tools_request' = build_request("history", tools_arg.specs)
    /\ ppc' = "built"
    /\ UNCHANGED <<mergeVars, retryVars, streamVars, turnVars, tools_arg,
                   prepared>>

NextTools ==
    \/ StreamChatCalled
    \/ PrepareNothing
    \/ PrepareTools
    \/ PrepareToolsFieldIgnored
    \/ PrepareToolsRaises
    \/ RequestBuilt

-----------------------------------------------------------------------------
(* Exceptions and events *)

NoExc == [kind |-> "none", msg |-> <<>>]
Exc(kind, msg) == [kind |-> kind, msg |-> msg]

\* "EOF"
MsgEOF == <<"E", "O", "F">>

\* messages a failed call reports
FaultMsgs == {MsgUnrecognizedStream, MsgInvalidApiKey}

\* what a transport call can raise: an OpenAIError, another Exception, or
\* the user's interrupt arriving while the call blocks
TransportFaults ==
    {Exc("OpenAIError", m) : m \in FaultMsgs}
    \cup {Exc("Exception", MsgEOF), Exc("KeyboardInterrupt", <<>>)}

ContentEvent(text) == [type |-> "content", text |-> text]

\* a slip that keeps one content event and overwrites its text while it is
\* still the last event delivered
emit_content_merged(evs, text) ==
    IF evs # <<>> /\ evs[Len(evs)].type = "content"
    THEN [evs EXCEPT ![Len(evs)].text = text]
    ELSE Append(evs, ContentEvent(text))

\* yield {"type": "content", "text": content}, line 136
emit_content(evs, text) == Append(evs, ContentEvent(text))

-----------------------------------------------------------------------------
(* The slot map of _consume_stream: a dict, so it iterates in insertion
   order *)

HasSlot(bufs, index) == \E i \in 1..Len(bufs) : bufs[i].index = index

SlotPos(bufs, index) == CHOOSE i \in 1..Len(bufs) : bufs[i].index = index

\* tool_buffers.setdefault(index, _ToolBuffer()), line 141
setdefault(bufs, index) ==
    IF HasSlot(bufs, index) THEN bufs
    ELSE Append(bufs, [index |-> index, buffer |-> NewToolBuffer])

\* a slip that merges every delta into the first slot of the map
merge_into_first_slot(bufs, tool_delta) ==
    LET bufs1 == setdefault(bufs, tool_delta.index)
    IN  [bufs1 EXCEPT ![1].buffer = merge_delta(@, tool_delta)]

\* lines 140-142: resolve or create the slot, merge the delta into it
merge_into_slot(bufs, tool_delta) ==
    LET index == tool_delta.index
        bufs1 == setdefault(bufs, index)
        i == SlotPos(bufs1, index)
    IN  [bufs1 EXCEPT ![i].buffer = merge_delta(@, tool_delta)]

\* any(reason == "tool_calls" for reason in finish_reasons), line 148
any_tool_calls(reasons) ==
    \E i \in 1..Len(reasons) : reasons[i] = "tool_calls"

\* any(reason for reason in finish_reasons if reason and
\*     reason != "tool_calls"), line 153
any_terminal(reasons) ==
    \E i \in 1..Len(reasons) :
        Truthy(reasons[i]) /\ reasons[i] # "tool_calls"

-----------------------------------------------------------------------------
(* _yield_from_completion: what one message of the completion yields *)

\* the tool_call event of lines 176-186
completion_tool_event(tool_call) ==
    [type |-> "tool_call",
     id |-> tool_call.id, calltype |-> tool_call.type,
     name |-> IF tool_call.fn THEN tool_call.name ELSE "",
     arguments |-> IF tool_call.fn THEN tool_call.arguments ELSE <<>>]

\* getattr(message, "tool_calls", []) or []
tool_calls_of(msg) == IF msg.has_tool_calls THEN msg.tool_calls ELSE <<>>

\* a slip that yields the tool calls before the content
message_events_content_last(msg) ==
    [i \in 1..Len(tool_calls_of(msg)) |->
        completion_tool_event(tool_calls_of(msg)[i])]
    \o (IF Truthy(msg.content) THEN <<ContentEvent(msg.content)>> ELSE <<>>)

\* lines 170-186: the events the loop body yields for one message
message_events(msg) ==
    (IF Truthy(msg.content) THEN <<ContentEvent(msg.content)>> ELSE <<>>)
    \o [i \in 1..Len(tool_calls_of(msg)) |->
          completion_tool_event(tool_calls_of(msg)[i])]

-----------------------------------------------------------------------------
(* SpecTurn: the conversation loop of main() and the turns it runs.  A
   stream_chat call appears by its outcome for _stream_response: the reply
   text and the collected tool calls, or the exception it raises. *)

\* outcomes of stream_chat calls (responses and faults) per session
MaxResponses == 4

\* chat.py add_user_message, add_assistant_message, add_assistant_tool_call
\* and add_tool_message build these dicts; an absent key reads None, and
\* turn is history: the turn in which the message was added
ChatMessage(role, text, calls_of_message, tool_call_id, t) ==
    [role |-> role, content |-> text, tool_calls |-> calls_of_message,
     tool_call_id |-> tool_call_id, turn |-> t]

\* ChatSession.add_user_message
add_user_message(msgs, text, t) ==
    Append(msgs, ChatMessage("user", text, <<>>, None, t))

\* ChatSession.add_assistant_message
add_assistant_message(msgs, text, t) ==
    Append(msgs, ChatMessage("assistant", text, <<>>, None, t))

\* a slip that records the assistant's text and drops its tool calls
add_assistant_tool_call_as_text(msgs, calls_of_message, text, t) ==
    Append(msgs, ChatMessage("assistant", text, <<>>, None, t))

\* ChatSession.add_assistant_tool_call: content only if it is non-empty
add_assistant_tool_call(msgs, calls_of_message, text, t) ==
    Append(msgs, ChatMessage("assistant",
                             IF Truthy(text) THEN text ELSE None,
                             calls_of_message, None, t))

\* ChatSession.add_tool_message
add_tool_message(msgs, tool_call_id, text, t) ==
    Append(msgs, ChatMessage("tool", text, <<>>, tool_call_id, t))

\* ChatSession.remove_last_message
remove_last_message(msgs) ==
    IF msgs # <<>> THEN SubSeq(msgs, 1, Len(msgs) - 1) ELSE msgs

\* a slip that removes only the last message
restore_history_last_only(msgs, checkpoint) ==
    IF Len(msgs) > checkpoint THEN remove_last_message(msgs) ELSE msgs

RECURSIVE restore_history(_, _)
\* main._restore_history
restore_history(msgs, checkpoint) ==
    IF Len(msgs) > checkpoint
    THEN restore_history(remove_last_message(msgs), checkpoint)
    ELSE msgs

\* a collected tool call: event["tool_call"] of a tool_call event.  The
\* arguments text is kept by what _parse_arguments makes of it: "" and "{}"
\* parse to an object, "{bad" is no JSON.
CollectedCall(id, name, arguments) ==
    [id |-> id, name |-> name, arguments |-> arguments]

TcTime == CollectedCall("call_1", "get_current_time", "{}")
TcFarewell == CollectedCall("call_2", "register_farewell", "")
TcBadArgs == CollectedCall("call_3", "get_current_time", "{bad")
\* what to_event gives for a slot that received no id and no name
TcUnnamed == CollectedCall("", "", "")

\* the tool-call lists a response can carry
CollectedCallLists ==
    {<<TcTime>>, <<TcFarewell>>, <<TcBadArgs>>, <<TcTime, TcFarewell>>,
     <<TcFarewell, TcUnnamed>>, <<TcTime, TcTime>>}

\* the reply texts: "".join(assistant_chunks)
Replies == {"", "hi"}

\* tools._parse_arguments: TRUE iff it returns a dict
parse_arguments_ok(arguments_json) == arguments_json \in {"", "{}"}

\* tools.execute_tool: the result text, or the ToolError it raises
execute_tool(name, arguments_json) ==
    IF name \in {"get_current_time", "register_farewell"}
    THEN IF parse_arguments_ok(arguments_json)
         THEN [raises |-> FALSE,
               text |-> IF name = "get_current_time"
                        THEN "current_time" ELSE "farewell_registered"]
         ELSE [raises |-> TRUE, text |-> "Invalid tool arguments"]
    ELSE [raises |-> TRUE, text |-> "Unknown tool"]

\* what _stream_response can raise out of stream_chat: the APIError, the
\* user's interrupt, or another exception stream_chat lets through
StreamChatFaults == {"APIError", "KeyboardInterrupt", "OpenAIError"}

InitTurn ==
    /\ no_history = FALSE
    /\ tpc = "args"
    /\ session_messages = <<>>
    /\ history_checkpoint = 0
    /\ collected_tool_calls = <<>>
    /\ tool_pos = 0
    /\ farewell_requested = FALSE
    /\ turn_exc = "none"
    /\ turn = 0
    /\ responses = 0
    /\ snapshot = <<>>
    /\ rounds = 0
    /\ last_response = "none"
    /\ aborted = FALSE
    /\ farewell_turn = 0

\* main line 53: parse_args reads the --no-history flag
ParseArgs ==
    /\ tpc = "args"
    /\ no_history' \in BOOLEAN
    /\ tpc' = "input"
    /\ UNCHANGED <<mergeVars, retryVars, streamVars, toolsVars,
                   farewell_turn,
                   session_messages, history_checkpoint,
                   collected_tool_calls, tool_pos, farewell_requested,
                   turn_exc, turn, responses, snapshot, rounds,
                   last_response, aborted>>

\* main lines 78-96: the user enters a message; with --no-history the
\* session is replaced first; the checkpoint is taken and the user message added
ReadInput ==
    /\ tpc = "input"
    /\ responses < MaxResponses
    /\ LET base == IF no_history THEN <<>> ELSE session_messages
       IN  /\ snapshot' = base
           /\ history_checkpoint' = Len(base)
           /\ session_messages' = add_user_message(base, "says", turn + 1)
    /\ turn' = turn + 1
    /\ rounds' = 0
    /\ last_response' = "none"
    /\ aborted' = FALSE
    /\ turn_exc' = "none"
    /\ tpc' = "interact"
    /\ UNCHANGED <<mergeVars, retryVars, streamVars, toolsVars,
                   farewell_turn,
                   no_history,
                   collected_tool_calls, tool_pos, farewell_requested,
                   responses>>

\* main lines 79-81 and 87-88: end of input or an exit command
Quit ==
    /\ tpc = "input"
    /\ tpc' = "exit"
    /\ UNCHANGED <<mergeVars, retryVars, streamVars, toolsVars,
                   farewell_turn,
                   no_history,
                   session_messages, history_checkpoint,
                   collected_tool_calls, tool_pos, farewell_requested,
                   turn_exc, turn, responses, snapshot, rounds,
                   last_response, aborted>>

\* _handle_assistant_interaction lines 148, 153-155: _stream_response returns
\* tool calls; the assistant tool-call message is appended
RespondWithToolCalls ==
    /\ tpc = "interact"
    /\ responses + 1 < MaxResponses
    /\ responses' = responses + 1
    /\ \E reply \in Replies : \E tcs \in CollectedCallLists :
        /\ session_messages' =
            add_assistant_tool_call(session_messages, tcs, reply, turn)
        /\ collected_tool_calls' = tcs
    /\ tool_pos' = 1
    /\ rounds' = rounds + 1
    /\ last_response' = "tool_calls"
    /\ tpc' = "tools"
    /\ UNCHANGED <<mergeVars, retryVars, streamVars, toolsVars,
                   farewell_turn,
                   no_history,
                   history_checkpoint, farewell_requested, turn_exc, turn,
                   snapshot, aborted>>

\* lines 148, 157-160: _stream_response returns no tool call; the reply is
\* appended if it is non-empty and the loop ends
RespondFinal ==
    /\ tpc = "interact"
    /\ responses < MaxResponses
    /\ responses' = responses + 1
    /\ \E reply \in Replies :
        session_messages' =
            IF Truthy(reply)
            THEN add_assistant_message(session_messages, reply, turn)
            ELSE session_messages
    /\ collected_tool_calls' = <<>>
    /\ last_response' = "final"
    /\ tpc' = "farewell_check"
    /\ UNCHANGED <<mergeVars, retryVars, streamVars, toolsVars,
                   farewell_turn,
                   no_history,
                   history_checkpoint, tool_pos, farewell_requested,
                   turn_exc, turn, snapshot, rounds, aborted>>

\* line 148: stream_chat raises, or the user interrupts the streaming
StreamChatRaises ==
    /\ tpc = "interact"
    /\ responses < MaxResponses
    /\ responses' = responses + 1
    /\ \E f \in StreamChatFaults : turn_exc' = f
    /\ tpc' = "abort"
    /\ UNCHANGED <<mergeVars, retryVars, streamVars, toolsVars,
                   farewell_turn,
                   no_history,
                   session_messages, history_checkpoint,
                   collected_tool_calls, tool_pos, farewell_requested, turn,
                   snapshot, rounds, last_response, aborted>>

\* _process_tool_calls lines 188-198, 206: the next tool call is executed and
\* its result appended; register_farewell sets the farewell flag
ExecuteTool ==
    /\ tpc = "tools"
    /\ tool_pos <= Len(collected_tool_calls)
    /\ LET tool_call == collected_tool_calls[tool_pos]
           result == execute_tool(tool_call.name, tool_call.arguments)
       IN  /\ ~result.raises
           /\ session_messages' =
                add_tool_message(session_messages, tool_call.id,
                                 result.text, turn)
           /\ farewell_requested' =
                (farewell_requested \/ tool_call.name = "register_farewell")
            /\ farewell_turn' =
                 IF tool_call.name = "register_farewell" THEN turn
                 ELSE farewell_turn
    /\ tool_pos' = tool_pos + 1
    /\ UNCHANGED <<mergeVars, retryVars, streamVars, toolsVars,
                   no_history, tpc,
                   history_checkpoint, collected_tool_calls, turn_exc, turn,
                   responses, snapshot, rounds, last_response, aborted>>

\* lines 197-204: execute_tool raises ToolError; the error is appended as the
\* tool result and the ToolError raised again
ExecuteToolFails ==
    /\ tpc = "tools"
    /\ tool_pos <= Len(collected_tool_calls)
    /\ LET tool_call == collected_tool_calls[tool_pos]
           result == execute_tool(tool_call.name, tool_call.arguments)
       IN  /\ result.raises
           /\ session_messages' =
                add_tool_message(session_messages, tool_call.id,
                                 result.text, turn)
    /\ turn_exc' = "ToolError"
    /\ tpc' = "abort"
    /\ UNCHANGED <<mergeVars, retryVars, streamVars, toolsVars,
                   farewell_turn,
                   no_history,
                   history_checkpoint, collected_tool_calls, tool_pos,
                   farewell_requested, turn, responses, snapshot, rounds,
                   last_response, aborted>>

\* the user interrupts while the tool calls are processed
InterruptTools ==
    /\ tpc = "tools"
    /\ turn_exc' = "KeyboardInterrupt"
    /\ tpc' = "abort"
    /\ UNCHANGED <<mergeVars, retryVars, streamVars, toolsVars,
                   farewell_turn,
                   no_history,
                   session_messages, history_checkpoint,
                   collected_tool_calls, tool_pos, farewell_requested, turn,
                   responses, snapshot, rounds, last_response, aborted>>

\* a slip that ends the turn once the tool calls are processed
ToolsDone_ending ==
    /\ tpc = "tools"
    /\ tool_pos > Len(collected_tool_calls)
    /\ tpc' = "farewell_check"
    /\ UNCHANGED <<mergeVars, retryVars, streamVars, toolsVars,
                   farewell_turn,
                   no_history,
                   session_messages, history_checkpoint,
                   collected_tool_calls, tool_pos, farewell_requested,
                   turn_exc, turn, responses, snapshot, rounds,
                   last_response, aborted>>

\* line 188: every tool call is processed; awaiting_final is still True, the
\* loop of line 142 goes round
ToolsDone ==
    /\ tpc = "tools"
    /\ tool_pos > Len(collected_tool_calls)
    /\ tpc' = "interact"
    /\ UNCHANGED <<mergeVars, retryVars, streamVars, toolsVars,
                   farewell_turn,
                   no_history,
                   session_messages, history_checkpoint,
                   collected_tool_calls, tool_pos, farewell_requested,
                   turn_exc, turn, responses, snapshot, rounds,
                   last_response, aborted>>

\* a slip that goes on to the next input without _restore_history
Restore_keeping_history ==
    /\ tpc = "abort"
    /\ UNCHANGED session_messages
    /\ collected_tool_calls' = <<>>
    /\ tool_pos' = 0
    /\ aborted' = TRUE
    /\ tpc' = "input"
    /\ UNCHANGED <<mergeVars, retryVars, streamVars, toolsVars,
                   farewell_turn,
                   no_history,
                   history_checkpoint, farewell_requested, turn_exc, turn,
                   responses, snapshot, rounds, last_response>>

\* main lines 100-123: each except clause restores the history to the
\* checkpoint and goes on to the next prompt
Restore ==
    /\ tpc = "abort"
    /\ session_messages' = restore_history(session_messages, history_checkpoint)
    /\ collected_tool_calls' = <<>>
    /\ tool_pos' = 0
    /\ aborted' = TRUE
    /\ tpc' = "input"
    /\ UNCHANGED <<mergeVars, retryVars, streamVars, toolsVars,
                   farewell_turn,
                   no_history,
                   history_checkpoint, farewell_requested, turn_exc, turn,
                   responses, snapshot, rounds, last_response>>

\* main lines 125-126 and tools.consume_farewell_request
FarewellCheck ==
    /\ tpc = "farewell_check"
    /\ farewell_requested' = FALSE
    /\ tpc' = IF farewell_requested THEN "exit" ELSE "input"
    /\ UNCHANGED <<mergeVars, retryVars, streamVars, toolsVars,
                   farewell_turn,
                   no_history,
                   session_messages, history_checkpoint,
                   collected_tool_calls, tool_pos, turn_exc, turn,
                   responses, snapshot, rounds, last_response, aborted>>

NextTurn ==
    \/ ParseArgs
    \/ ReadInput \/ Quit
    \/ RespondWithToolCalls \/ RespondFinal \/ StreamChatRaises
    \/ ExecuteTool \/ ExecuteToolFails \/ InterruptTools \/ ToolsDone
    \/ Restore \/ FarewellCheck

-----------------------------------------------------------------------------
(* Spec: one stream_chat call, driven by its consumer *)

\* what the transport delivers in one call, counted in choices, tool deltas,
\* completion choices, completion tool calls and faults
MaxItems == 4

\* the tools argument of stream_chat: main passes list_tool_specs() in every
\* call (main.py lines 64, 148 and 170)
ToolInputs == {list_tool_specs}

\* The code reads a text only for its truthiness, so the non-empty texts of
\* a run are taken distinct: the k-th item the transport delivers carries
\* the k-th label.
Labels == <<"1", "2", "3", "4", "5", "6", "7", "8", "9", "A", "B", "C">>

\* delta.content of the choice that is item k: absent, empty, or a text
Contents(k) == {None, "", Labels[k]}

\* choice.finish_reason
Finishes == {None, "", "tool_calls", "stop"}

\* the slot indices the server assigns
SlotIndices == {0, 1}

\* the tool-call deltas that can be item k of a stream: an opening delta
\* with id and name, an argument fragment, a delta that carries nothing
StreamToolDeltas(k) ==
    {ToolDelta("obj", i, Labels[k], None, "obj", "get_current_time", NoneSeq) :
        i \in SlotIndices}
    \cup {ToolDelta("obj", i, None, None, "obj", None, <<Labels[k]>>) :
            i \in SlotIndices}
    \cup {ToolDelta("obj", i, None, None, "none", None, NoneSeq) :
            i \in SlotIndices}

\* the tool calls of a completion message
CallA ==
    [id |-> "call_a", type |-> "function", fn |-> TRUE,
     name |-> "get_current_time", arguments |-> <<"{", "}">>]
CallB ==
    [id |-> "call_b", type |-> "function", fn |-> TRUE,
     name |-> "register_farewell", arguments |-> <<"{", "x", "}">>]
CallNoFunction ==
    [id |-> "call_c", type |-> "function", fn |-> FALSE,
     name |-> None, arguments |-> NoneSeq]

ToolCallLists == {<<CallA>>, <<CallNoFunction>>, <<CallA, CallB>>, <<CallB, CallA>>}

Message(text, has_tool_calls, tool_calls) ==
    [content |-> text, has_tool_calls |-> has_tool_calls,
     tool_calls |-> tool_calls]

NoMessage == Message(None, FALSE, <<>>)

\* the messages a completion choice can carry as item k
Messages(k) ==
    {Message(c, FALSE, <<>>) : c \in Contents(k)}
    \cup {Message(c, TRUE, t) : c \in Contents(k), t \in ToolCallLists}

InitStream ==
    /\ pc = "start"
    /\ exc = NoExc
    /\ request = EmptyRequest
    /\ calls = <<>>
    /\ stream = "none"
    /\ items = 0
    /\ chunk_read = FALSE
    /\ content = None
    /\ cur_message = NoMessage
    /\ tool_buffers = <<>>
    /\ finish_reasons = <<>>
    /\ flush_pos = 0
    /\ pending = <<>>
    /\ events = <<>>
    /\ content_seen = <<>>
    /\ due = {}
    /\ addressed = <<>>
    /\ flushed_idx = {}
    /\ emitted_idx = <<>>
    /\ chunk_tool_calls = FALSE
    /\ terminal_seen = FALSE
    /\ after_terminal = FALSE
    /\ ever_finish = FALSE
    /\ exhausted = FALSE
    /\ stream_fault = NoExc
    /\ ns_start = -1
    /\ msg_start = 0

\* the first next() of the consumer enters stream_chat: lines 100-109
BuildRequest ==

    /\ pc = "start"
    /\ \E tools \in ToolInputs : request' = build_request("history", tools)
    /\ pc' = "create"
    /\ UNCHANGED <<mergeVars, retryVars, turnVars, toolsVars,
                   exc, calls, stream,
                   items, chunk_read, content, cur_message, tool_buffers,
                   finish_reasons, flush_pos, pending, events, content_seen,
                   due, addressed, flushed_idx, emitted_idx,
                   chunk_tool_calls, terminal_seen, after_terminal,
                   ever_finish, exhausted, stream_fault, ns_start,
                   msg_start>>

\* line 112 returns a stream; line 113 enters _consume_stream
CreateStream ==

    /\ pc = "create"
    /\ calls' = Append(calls, StreamCall(request))
    /\ stream' = "open"
    /\ pc' = "iter"
    /\ UNCHANGED <<mergeVars, retryVars, turnVars, toolsVars,
                   exc, request, items,
                   chunk_read, content, cur_message, tool_buffers,
                   finish_reasons, flush_pos, pending, events, content_seen,
                   due, addressed, flushed_idx, emitted_idx,
                   chunk_tool_calls, terminal_seen, after_terminal,
                   ever_finish, exhausted, stream_fault, ns_start,
                   msg_start>>

\* line 112 raises
CreateStreamFails ==

    /\ pc = "create"
    /\ items < MaxItems
    /\ items' = items + 1
    /\ calls' = Append(calls, StreamCall(request))
    /\ \E f \in TransportFaults : exc' = f /\ stream_fault' = f
    /\ pc' = "handler"
    /\ UNCHANGED <<mergeVars, retryVars, turnVars, toolsVars,
                   request, stream,
                   chunk_read, content, cur_message, tool_buffers,
                   finish_reasons, flush_pos, pending, events, content_seen,
                   due, addressed, flushed_idx, emitted_idx,
                   chunk_tool_calls, terminal_seen, after_terminal,
                   ever_finish, exhausted, ns_start, msg_start>>

\* line 125 delivers a chunk; lines 126-127
ChunkArrives ==

    /\ pc = "iter"
    /\ chunk_read' = TRUE
    /\ after_terminal' = (after_terminal \/ terminal_seen)
    /\ finish_reasons' = <<>>
    /\ chunk_tool_calls' = FALSE
    /\ emitted_idx' = <<>>
    /\ pc' = "choice"
    /\ UNCHANGED <<mergeVars, retryVars, turnVars, toolsVars,
                   exc, request, calls,
                   stream, items, content, cur_message, tool_buffers,
                   flush_pos, pending, events, content_seen, due, addressed,
                   flushed_idx, terminal_seen, ever_finish, exhausted,
                   stream_fault, ns_start, msg_start>>

\* a slip that treats the end of the stream as a failure
StreamExhausted_as_fault ==

    /\ pc = "iter"
    /\ exhausted' = TRUE
    /\ exc' = Exc("Exception", MsgEOF)
    /\ pc' = "finally"
    /\ UNCHANGED <<mergeVars, retryVars, turnVars, toolsVars,
                   request, calls, stream,
                   items, chunk_read, content, cur_message, tool_buffers,
                   finish_reasons, flush_pos, pending, events, content_seen,
                   due, addressed, flushed_idx, emitted_idx,
                   chunk_tool_calls, terminal_seen, after_terminal,
                   ever_finish, stream_fault, ns_start, msg_start>>

\* line 125: the stream is exhausted, the for loop ends
StreamExhausted ==

    /\ pc = "iter"
    /\ exhausted' = TRUE
    /\ pc' = "finally"
    /\ UNCHANGED <<mergeVars, retryVars, turnVars, toolsVars,
                   exc, request, calls,
                   stream, items, chunk_read, content, cur_message,
                   tool_buffers, finish_reasons, flush_pos, pending, events,
                   content_seen, due, addressed, flushed_idx, emitted_idx,
                   chunk_tool_calls, terminal_seen, after_terminal,
                   ever_finish, stream_fault, ns_start, msg_start>>

\* a slip that lets the fault leave _consume_stream without the finally
\* clause of lines 155-158
StreamFails_skipping_finally ==

    /\ pc = "iter"
    /\ items < MaxItems
    /\ items' = items + 1
    /\ \E f \in TransportFaults : exc' = f /\ stream_fault' = f
    /\ pc' = "handler"
    /\ UNCHANGED <<mergeVars, retryVars, turnVars, toolsVars,
                   request, calls, stream,
                   chunk_read, content, cur_message, tool_buffers,
                   finish_reasons, flush_pos, pending, events, content_seen,
                   due, addressed, flushed_idx, emitted_idx,
                   chunk_tool_calls, terminal_seen, after_terminal,
                   ever_finish, exhausted, ns_start, msg_start>>

\* line 125 raises while waiting for the next chunk
StreamFails ==

    /\ pc = "iter"
    /\ items < MaxItems
    /\ items' = items + 1
    /\ \E f \in TransportFaults : exc' = f /\ stream_fault' = f
    /\ pc' = "finally"
    /\ UNCHANGED <<mergeVars, retryVars, turnVars, toolsVars,
                   request, calls, stream,
                   chunk_read, content, cur_message, tool_buffers,
                   finish_reasons, flush_pos, pending, events, content_seen,
                   due, addressed, flushed_idx, emitted_idx,
                   chunk_tool_calls, terminal_seen, after_terminal,
                   ever_finish, exhausted, ns_start, msg_start>>

\* history: a choice of the current chunk carries finish reason f
SeeFinish(f) ==
    /\ chunk_tool_calls' = (chunk_tool_calls \/ f = "tool_calls")
    /\ ever_finish' = (ever_finish \/ Truthy(f))
    /\ terminal_seen' = (terminal_seen \/ (Truthy(f) /\ f # "tool_calls"))

\* line 129: the chunk has no further choice
ChoicesDone ==

    /\ pc = "choice"
    /\ pc' = "flush_check"
    /\ UNCHANGED <<mergeVars, retryVars, turnVars, toolsVars,
                   exc, request, calls,
                   stream, items, chunk_read, content, cur_message,
                   tool_buffers, finish_reasons, flush_pos, pending, events,
                   content_seen, due, addressed, flushed_idx, emitted_idx,
                   chunk_tool_calls, terminal_seen, after_terminal,
                   ever_finish, exhausted, stream_fault, ns_start,
                   msg_start>>

\* lines 129-132: the chunk has another choice, without a delta: continue
ChoiceWithoutDelta ==

    /\ pc = "choice"
    /\ items < MaxItems
    /\ \E f \in Finishes : SeeFinish(f)
    /\ items' = items + 1
    /\ UNCHANGED <<mergeVars, retryVars, turnVars, toolsVars,
                   pc, exc, request, calls,
                   stream, chunk_read, content, cur_message, tool_buffers,
                   finish_reasons, flush_pos, pending, events, content_seen,
                   due, addressed, flushed_idx, emitted_idx, after_terminal,
                   exhausted, stream_fault, ns_start, msg_start>>

\* lines 129-134: the chunk has another choice, with a delta
ChoiceWithDelta ==

    /\ pc = "choice"
    /\ items < MaxItems
    /\ \E c \in Contents(items + 1) :
        /\ content' = c
        /\ content_seen' = IF Truthy(c) THEN Append(content_seen, c)
                           ELSE content_seen
    /\ items' = items + 1
    /\ pc' = "content"
    /\ UNCHANGED <<mergeVars, retryVars, turnVars, toolsVars,
                   exc, request, calls,
                   stream, chunk_read, cur_message, tool_buffers,
                   finish_reasons, flush_pos, pending, events, due,
                   addressed, flushed_idx, emitted_idx, chunk_tool_calls,
                   terminal_seen, after_terminal, ever_finish, exhausted,
                   stream_fault, ns_start, msg_start>>

\* lines 135-136: the content is non-empty and is yielded
YieldContent ==

    /\ pc = "content"
    /\ Truthy(content)
    /\ events' = emit_content(events, content)
    /\ content' = None
    /\ pc' = "y_content"
    /\ UNCHANGED <<mergeVars, retryVars, turnVars, toolsVars,
                   exc, request, calls,
                   stream, items, chunk_read, cur_message, tool_buffers,
                   finish_reasons, flush_pos, pending, content_seen, due,
                   addressed, flushed_idx, emitted_idx, chunk_tool_calls,
                   terminal_seen, after_terminal, ever_finish, exhausted,
                   stream_fault, ns_start, msg_start>>

\* line 135: no content
SkipContent ==

    /\ pc = "content"
    /\ ~Truthy(content)
    /\ content' = None
    /\ pc' = "tools"
    /\ UNCHANGED <<mergeVars, retryVars, turnVars, toolsVars,
                   exc, request, calls,
                   stream, items, chunk_read, cur_message, tool_buffers,
                   finish_reasons, flush_pos, pending, events, content_seen,
                   due, addressed, flushed_idx, emitted_idx,
                   chunk_tool_calls, terminal_seen, after_terminal,
                   ever_finish, exhausted, stream_fault, ns_start,
                   msg_start>>

\* the consumer asks for the next event after a content event
ResumeContent ==

    /\ pc = "y_content"
    /\ pc' = "tools"
    /\ UNCHANGED <<mergeVars, retryVars, turnVars, toolsVars,
                   exc, request, calls,
                   stream, items, chunk_read, content, cur_message,
                   tool_buffers, finish_reasons, flush_pos, pending, events,
                   content_seen, due, addressed, flushed_idx, emitted_idx,
                   chunk_tool_calls, terminal_seen, after_terminal,
                   ever_finish, exhausted, stream_fault, ns_start,
                   msg_start>>

\* lines 139-142: delta.tool_calls holds another tool delta
MergeToolDelta ==

    /\ pc = "tools"
    /\ items < MaxItems
    /\ \E tool_delta \in StreamToolDeltas(items + 1) :
        /\ tool_buffers' = merge_into_slot(tool_buffers, tool_delta)
        /\ due' = due \cup {tool_delta.index}
        /\ addressed' = Append(addressed, tool_delta)
    /\ items' = items + 1
    /\ UNCHANGED <<mergeVars, retryVars, turnVars, toolsVars,
                   pc, exc, request, calls,
                   stream, chunk_read, content, cur_message, finish_reasons,
                   flush_pos, pending, events, content_seen, flushed_idx,
                   emitted_idx, chunk_tool_calls, terminal_seen,
                   after_terminal, ever_finish, exhausted, stream_fault,
                   ns_start, msg_start>>

\* lines 144-146: collect the finish reason of the choice
CollectFinish ==

    /\ pc = "tools"
    /\ \E finish_reason \in Finishes :
        /\ finish_reasons' =
            IF Truthy(finish_reason)
            THEN Append(finish_reasons, finish_reason) ELSE finish_reasons
        /\ SeeFinish(finish_reason)
    /\ pc' = "choice"
    /\ UNCHANGED <<mergeVars, retryVars, turnVars, toolsVars,
                   exc, request, calls,
                   stream, items, chunk_read, content, cur_message,
                   tool_buffers, flush_pos, pending, events, content_seen,
                   due, addressed, flushed_idx, emitted_idx, after_terminal,
                   exhausted, stream_fault, ns_start, msg_start>>

\* line 148
FlushCheck ==

    /\ pc = "flush_check"
    /\ pc' = IF any_tool_calls(finish_reasons) THEN "flush" ELSE "break_check"
    /\ flush_pos' = 1
    /\ UNCHANGED <<mergeVars, retryVars, turnVars, toolsVars,
                   exc, request, calls,
                   stream, items, chunk_read, content, cur_message,
                   tool_buffers, finish_reasons, pending, events,
                   content_seen, due, addressed, flushed_idx, emitted_idx,
                   chunk_tool_calls, terminal_seen, after_terminal,
                   ever_finish, exhausted, stream_fault, ns_start,
                   msg_start>>

\* lines 149-150: the next buffer of tool_buffers.values() is yielded
YieldToolCall ==

    /\ pc = "flush"
    /\ flush_pos <= Len(tool_buffers)
    /\ events' = Append(events, to_event(tool_buffers[flush_pos].buffer))
    /\ emitted_idx' = Append(emitted_idx, tool_buffers[flush_pos].index)
    /\ pc' = "y_tool"
    /\ UNCHANGED <<mergeVars, retryVars, turnVars, toolsVars,
                   exc, request, calls,
                   stream, items, chunk_read, content, cur_message,
                   tool_buffers, finish_reasons, flush_pos, pending,
                   content_seen, due, addressed, flushed_idx,
                   chunk_tool_calls, terminal_seen, after_terminal,
                   ever_finish, exhausted, stream_fault, ns_start,
                   msg_start>>

\* the consumer asks for the next event after a tool_call event
ResumeToolCall ==

    /\ pc = "y_tool"
    /\ flush_pos' = flush_pos + 1
    /\ pc' = "flush"
    /\ UNCHANGED <<mergeVars, retryVars, turnVars, toolsVars,
                   exc, request, calls,
                   stream, items, chunk_read, content, cur_message,
                   tool_buffers, finish_reasons, pending, events,
                   content_seen, due, addressed, flushed_idx, emitted_idx,
                   chunk_tool_calls, terminal_seen, after_terminal,
                   ever_finish, exhausted, stream_fault, ns_start,
                   msg_start>>

\* a slip that leaves the flushed buffers in the slot map
ClearBuffers_keeping ==

    /\ pc = "flush"
    /\ flush_pos > Len(tool_buffers)
    /\ due' = {}
    /\ addressed' = <<>>
    /\ flushed_idx' = flushed_idx \cup due
    /\ pc' = "break_check"
    /\ UNCHANGED <<mergeVars, retryVars, turnVars, toolsVars,
                   exc, request, calls,
                   stream, items, chunk_read, content, cur_message,
                   tool_buffers, finish_reasons, flush_pos, pending, events,
                   content_seen, emitted_idx, chunk_tool_calls,
                   terminal_seen, after_terminal, ever_finish, exhausted,
                   stream_fault, ns_start, msg_start>>

\* line 151: tool_buffers.clear()
ClearBuffers ==

    /\ pc = "flush"
    /\ flush_pos > Len(tool_buffers)
    /\ tool_buffers' = <<>>
    /\ due' = {}
    /\ addressed' = <<>>
    /\ flushed_idx' = flushed_idx \cup due
    /\ pc' = "break_check"
    /\ UNCHANGED <<mergeVars, retryVars, turnVars, toolsVars,
                   exc, request, calls,
                   stream, items, chunk_read, content, cur_message,
                   finish_reasons, flush_pos, pending, events, content_seen,
                   emitted_idx, chunk_tool_calls, terminal_seen,
                   after_terminal, ever_finish, exhausted, stream_fault,
                   ns_start, msg_start>>

\* lines 153-154
BreakCheck ==

    /\ pc = "break_check"
    /\ pc' = IF any_terminal(finish_reasons) THEN "finally" ELSE "iter"
    /\ UNCHANGED <<mergeVars, retryVars, turnVars, toolsVars,
                   exc, request, calls,
                   stream, items, chunk_read, content, cur_message,
                   tool_buffers, finish_reasons, flush_pos, pending, events,
                   content_seen, due, addressed, flushed_idx, emitted_idx,
                   chunk_tool_calls, terminal_seen, after_terminal,
                   ever_finish, exhausted, stream_fault, ns_start,
                   msg_start>>

\* The consumer is interrupted while the generator is suspended at a yield
\* of _consume_stream and leaves its loop.  CPython finalizes the abandoned
\* generator when the consumer's frame is released: close() raises
\* GeneratorExit at the yield.
Abandon ==

    /\ pc \in {"y_content", "y_tool"}
    /\ exc' = Exc("GeneratorExit", <<>>)
    /\ pc' = "finally"
    /\ UNCHANGED <<mergeVars, retryVars, turnVars, toolsVars,
                   request, calls, stream,
                   items, chunk_read, content, cur_message, tool_buffers,
                   finish_reasons, flush_pos, pending, events, content_seen,
                   due, addressed, flushed_idx, emitted_idx,
                   chunk_tool_calls, terminal_seen, after_terminal,
                   ever_finish, exhausted, stream_fault, ns_start,
                   msg_start>>

\* a slip that closes the stream only when an exception is in flight
Finally_only_on_fault ==

    /\ pc = "finally"
    /\ stream' = IF exc = NoExc THEN stream ELSE "closed"
    /\ tool_buffers' = <<>>
    /\ addressed' = <<>>
    /\ pc' = IF exc = NoExc THEN "done" ELSE "handler"
    /\ UNCHANGED <<mergeVars, retryVars, turnVars, toolsVars,
                   exc, request, calls,
                   items, chunk_read, content, cur_message, finish_reasons,
                   flush_pos, pending, events, content_seen, due,
                   flushed_idx, emitted_idx, chunk_tool_calls,
                   terminal_seen, after_terminal, ever_finish, exhausted,
                   stream_fault, ns_start, msg_start>>

\* lines 155-158: close the stream; then return, or let the exception go on
\* to the except clauses of stream_chat.  The frame of _consume_stream is
\* gone, and tool_buffers with it.
Finally ==

    /\ pc = "finally"
    /\ stream' = "closed"
    /\ tool_buffers' = <<>>
    /\ addressed' = <<>>
    /\ pc' = IF exc = NoExc THEN "done" ELSE "handler"
    /\ UNCHANGED <<mergeVars, retryVars, turnVars, toolsVars,
                   exc, request, calls,
                   items, chunk_read, content, cur_message, finish_reasons,
                   flush_pos, pending, events, content_seen, due,
                   flushed_idx, emitted_idx, chunk_tool_calls,
                   terminal_seen, after_terminal, ever_finish, exhausted,
                   stream_fault, ns_start, msg_start>>

\* lines 114-116: an OpenAIError the retry policy accepts
RetryWithoutStream ==

    /\ pc = "handler"
    /\ exc.kind = "OpenAIError"
    /\ should_retry_without_stream(exc.msg)
    /\ exc' = NoExc
    /\ pc' = "ns_create"
    /\ UNCHANGED <<mergeVars, retryVars, turnVars, toolsVars,
                   request, calls, stream,
                   items, chunk_read, content, cur_message, tool_buffers,
                   finish_reasons, flush_pos, pending, events, content_seen,
                   due, addressed, flushed_idx, emitted_idx,
                   chunk_tool_calls, terminal_seen, after_terminal,
                   ever_finish, exhausted, stream_fault, ns_start,
                   msg_start>>

\* a slip that ends the event sequence instead of raising
RaiseAPIError_swallowing ==

    /\ pc = "handler"
    /\ \/ exc.kind = "OpenAIError" /\ ~should_retry_without_stream(exc.msg)
       \/ exc.kind = "Exception"
    /\ exc' = NoExc
    /\ pc' = "done"
    /\ UNCHANGED <<mergeVars, retryVars, turnVars, toolsVars,
                   request, calls, stream,
                   items, chunk_read, content, cur_message, tool_buffers,
                   finish_reasons, flush_pos, pending, events, content_seen,
                   due, addressed, flushed_idx, emitted_idx,
                   chunk_tool_calls, terminal_seen, after_terminal,
                   ever_finish, exhausted, stream_fault, ns_start,
                   msg_start>>

\* lines 117-120: any other OpenAIError or Exception becomes an APIError
RaiseAPIError ==

    /\ pc = "handler"
    /\ \/ exc.kind = "OpenAIError" /\ ~should_retry_without_stream(exc.msg)
       \/ exc.kind = "Exception"
    /\ exc' = Exc("APIError", exc.msg)
    /\ pc' = "raised"
    /\ UNCHANGED <<mergeVars, retryVars, turnVars, toolsVars,
                   request, calls, stream,
                   items, chunk_read, content, cur_message, tool_buffers,
                   finish_reasons, flush_pos, pending, events, content_seen,
                   due, addressed, flushed_idx, emitted_idx,
                   chunk_tool_calls, terminal_seen, after_terminal,
                   ever_finish, exhausted, stream_fault, ns_start,
                   msg_start>>

\* KeyboardInterrupt and GeneratorExit are no Exception: no clause of
\* lines 114-120 catches them
Propagate ==

    /\ pc = "handler"
    /\ exc.kind \in {"KeyboardInterrupt", "GeneratorExit"}
    /\ pc' = IF exc.kind = "GeneratorExit" THEN "closed" ELSE "raised"
    /\ UNCHANGED <<mergeVars, retryVars, turnVars, toolsVars,
                   exc, request, calls,
                   stream, items, chunk_read, content, cur_message,
                   tool_buffers, finish_reasons, flush_pos, pending, events,
                   content_seen, due, addressed, flushed_idx, emitted_idx,
                   chunk_tool_calls, terminal_seen, after_terminal,
                   ever_finish, exhausted, stream_fault, ns_start,
                   msg_start>>

\* line 161 returns a completion; line 165 starts on its choices
NonStreamCreate ==

    /\ pc = "ns_create"
    /\ calls' = Append(calls, NonStreamCall(request))
    /\ ns_start' = Len(events)
    /\ pc' = "ns_choice"
    /\ UNCHANGED <<mergeVars, retryVars, turnVars, toolsVars,
                   exc, request, stream,
                   items, chunk_read, content, cur_message, tool_buffers,
                   finish_reasons, flush_pos, pending, events, content_seen,
                   due, addressed, flushed_idx, emitted_idx,
                   chunk_tool_calls, terminal_seen, after_terminal,
                   ever_finish, exhausted, stream_fault, msg_start>>

\* line 161 raises, inside the except clause of line 114: nothing catches it
NonStreamCreateFails ==

    /\ pc = "ns_create"
    /\ items < MaxItems
    /\ items' = items + 1
    /\ calls' = Append(calls, NonStreamCall(request))
    /\ ns_start' = Len(events)
    /\ \E f \in TransportFaults : exc' = f
    /\ pc' = "raised"
    /\ UNCHANGED <<mergeVars, retryVars, turnVars, toolsVars,
                   request, stream,
                   chunk_read, content, cur_message, tool_buffers,
                   finish_reasons, flush_pos, pending, events, content_seen,
                   due, addressed, flushed_idx, emitted_idx,
                   chunk_tool_calls, terminal_seen, after_terminal,
                   ever_finish, exhausted, stream_fault, msg_start>>

\* line 165: the completion has no further choice, the generator returns
CompletionDone ==

    /\ pc = "ns_choice"
    /\ cur_message' = NoMessage
    /\ pc' = "done"
    /\ UNCHANGED <<mergeVars, retryVars, turnVars, toolsVars,
                   exc, request, calls,
                   stream, items, chunk_read, content, tool_buffers,
                   finish_reasons, flush_pos, pending, events, content_seen,
                   due, addressed, flushed_idx, emitted_idx,
                   chunk_tool_calls, terminal_seen, after_terminal,
                   ever_finish, exhausted, stream_fault, ns_start,
                   msg_start>>

\* lines 166-168: the next choice has no message: continue
ChoiceWithoutMessage ==

    /\ pc = "ns_choice"
    /\ items < MaxItems
    /\ items' = items + 1
    /\ cur_message' = NoMessage
    /\ UNCHANGED <<mergeVars, retryVars, turnVars, toolsVars,
                   pc, exc, request, calls,
                   stream, chunk_read, content, tool_buffers,
                   finish_reasons, flush_pos, pending, events, content_seen,
                   due, addressed, flushed_idx, emitted_idx,
                   chunk_tool_calls, terminal_seen, after_terminal,
                   ever_finish, exhausted, stream_fault, ns_start,
                   msg_start>>

\* lines 166-186: the next choice has a message
ChoiceWithMessage ==

    /\ pc = "ns_choice"
    /\ items < MaxItems
    /\ \E msg \in Messages(items + 1) :
        /\ items + 1 + Len(tool_calls_of(msg)) <= MaxItems
        /\ items' = items + 1 + Len(tool_calls_of(msg))
        /\ cur_message' = msg
        /\ pending' = message_events(msg)
    /\ msg_start' = Len(events)
    /\ pc' = "ns_emit"
    /\ UNCHANGED <<mergeVars, retryVars, turnVars, toolsVars,
                   exc, request, calls,
                   stream, chunk_read, content, tool_buffers,
                   finish_reasons, flush_pos, events, content_seen, due,
                   addressed, flushed_idx, emitted_idx, chunk_tool_calls,
                   terminal_seen, after_terminal, ever_finish, exhausted,
                   stream_fault, ns_start>>

\* lines 172 and 176: the next event of the message is yielded
YieldCompletionEvent ==

    /\ pc = "ns_emit"
    /\ pending # <<>>
    /\ events' = Append(events, Head(pending))
    /\ pending' = Tail(pending)
    /\ pc' = "ns_yield"
    /\ UNCHANGED <<mergeVars, retryVars, turnVars, toolsVars,
                   exc, request, calls,
                   stream, items, chunk_read, content, cur_message,
                   tool_buffers, finish_reasons, flush_pos, content_seen,
                   due, addressed, flushed_idx, emitted_idx,
                   chunk_tool_calls, terminal_seen, after_terminal,
                   ever_finish, exhausted, stream_fault, ns_start,
                   msg_start>>

\* the consumer asks for the next event of the completion
ResumeCompletion ==

    /\ pc = "ns_yield"
    /\ pc' = "ns_emit"
    /\ UNCHANGED <<mergeVars, retryVars, turnVars, toolsVars,
                   exc, request, calls,
                   stream, items, chunk_read, content, cur_message,
                   tool_buffers, finish_reasons, flush_pos, pending, events,
                   content_seen, due, addressed, flushed_idx, emitted_idx,
                   chunk_tool_calls, terminal_seen, after_terminal,
                   ever_finish, exhausted, stream_fault, ns_start,
                   msg_start>>

\* the message has yielded all its events: back to line 165
MessageDone ==

    /\ pc = "ns_emit"
    /\ pending = <<>>
    /\ pc' = "ns_choice"
    /\ UNCHANGED <<mergeVars, retryVars, turnVars, toolsVars,
                   exc, request, calls,
                   stream, items, chunk_read, content, cur_message,
                   tool_buffers, finish_reasons, flush_pos, pending, events,
                   content_seen, due, addressed, flushed_idx, emitted_idx,
                   chunk_tool_calls, terminal_seen, after_terminal,
                   ever_finish, exhausted, stream_fault, ns_start,
                   msg_start>>

\* the consumer is interrupted while the generator is suspended at a yield
\* of _yield_from_completion: GeneratorExit leaves stream_chat uncaught
AbandonCompletion ==

    /\ pc = "ns_yield"
    /\ exc' = Exc("GeneratorExit", <<>>)
    /\ pending' = <<>>
    /\ pc' = "closed"
    /\ UNCHANGED <<mergeVars, retryVars, turnVars, toolsVars,
                   request, calls, stream,
                   items, chunk_read, content, cur_message, tool_buffers,
                   finish_reasons, flush_pos, events, content_seen, due,
                   addressed, flushed_idx, emitted_idx, chunk_tool_calls,
                   terminal_seen, after_terminal, ever_finish, exhausted,
                   stream_fault, ns_start, msg_start>>

Next ==
    \/ BuildRequest \/ CreateStream \/ CreateStreamFails
    \/ ChunkArrives \/ StreamExhausted \/ StreamFails
    \/ ChoicesDone \/ ChoiceWithoutDelta \/ ChoiceWithDelta
    \/ YieldContent \/ SkipContent \/ ResumeContent
    \/ MergeToolDelta \/ CollectFinish
    \/ FlushCheck \/ YieldToolCall \/ ResumeToolCall \/ ClearBuffers
    \/ BreakCheck \/ Abandon \/ Finally
    \/ RetryWithoutStream \/ RaiseAPIError \/ Propagate
    \/ NonStreamCreate \/ NonStreamCreateFails
    \/ CompletionDone \/ ChoiceWithoutMessage \/ ChoiceWithMessage
    \/ YieldCompletionEvent \/ ResumeCompletion \/ MessageDone
    \/ AbandonCompletion

-----------------------------------------------------------------------------
(* The specifications *)

Init == InitMerge /\ InitRetry /\ InitStream /\ InitTurn /\ InitTools

Spec == Init /\ [][Next]_vars

NextRetry == AppendPiece \/ DecideRetry

SpecMerge == Init /\ [][NextMerge]_vars

SpecRetry == Init /\ [][NextRetry]_vars

SpecTurn == Init /\ [][NextTurn]_vars

SpecTools == Init /\ [][NextTools]_vars

\* the loop under its scheduling: the program's own steps are taken, and the
\* backend, asked again and again, at some time answers without tool calls
SpecTurnFair ==
    /\ Init
    /\ [][NextTurn]_vars
    /\ WF_vars(ExecuteTool)
    /\ WF_vars(ExecuteToolFails)
    /\ WF_vars(ToolsDone)
    /\ SF_vars(RespondFinal)

\* word occurs in msg at some position, letter case ignored
OccursIgnoringCase(msg, word) ==
    \E i \in 0..(Len(msg) - Len(word)) :
        \A j \in 1..Len(word) : LowerChar(msg[i + j]) = word[j]

(* C8: the policy answers yes exactly for the messages that contain, letter
   case ignored, "stream" and one of "not supported", "unsupported",
   "does not support", "unrecognized request argument"; so yes for
   "Unrecognized request argument: stream", no for "invalid api key" and
   for "model not found". *)
C8_RetryExactly ==
    /\ retry # "undecided" =>
        (retry = "yes") <=>
            /\ OccursIgnoringCase(exc_text, KwStream)
            /\ \/ OccursIgnoringCase(exc_text, KwNotSupported)
               \/ OccursIgnoringCase(exc_text, KwUnsupported)
               \/ OccursIgnoringCase(exc_text, KwDoesNotSupport)
               \/ OccursIgnoringCase(exc_text, KwUnrecognized)
    /\ retry # "undecided" /\ exc_text = MsgUnrecognizedStream => retry = "yes"
    /\ retry # "undecided" /\ exc_text \in {MsgInvalidApiKey, MsgModelNotFound}
        => retry = "no"

\* the policy accepted "Unrecognized request argument: stream"
C8_Witness == exc_text = MsgUnrecognizedStream /\ retry = "yes"

-----------------------------------------------------------------------------
(* Claims about _consume_stream *)

\* pcs at which _consume_stream is still consuming the stream
ConsumingPcs ==
    {"iter", "choice", "content", "y_content", "tools", "flush_check",
     "flush", "y_tool", "break_check", "finally"}

\* the events the streaming attempt delivered
StreamEvents ==
    IF ns_start < 0 THEN events ELSE SubSeq(events, 1, ns_start)

IsContent(e) == e.type = "content"

IsToolCall(e) == e.type = "tool_call"

\* the texts of the content events of evs, in order
ContentTexts(evs) ==
    LET cs == SelectSeq(evs, IsContent)
    IN  [i \in 1..Len(cs) |-> cs[i].text]

(* C1: a tool_call event is emitted while a chunk is processed only if a
   choice of that chunk carries finish reason "tool_calls"; at a chunk with
   such a choice, when its processing reaches the end-of-chunk test, every
   slot that received a delta since the last flush has been emitted exactly
   once and the slot map is empty. *)
C1_FlushOnToolCalls ==
    /\ emitted_idx # <<>> => chunk_tool_calls
    /\ pc = "flush" /\ flush_pos > Len(tool_buffers) =>
        /\ {emitted_idx[i] : i \in 1..Len(emitted_idx)} = due
        /\ Len(emitted_idx) = Cardinality(due)
    /\ pc = "break_check" /\ chunk_tool_calls =>
        /\ due = {}
        /\ tool_buffers = <<>>

\* a chunk with a "tool_calls" finish reason was processed to its end while a
\* slot that had received a delta stayed buffered and unemitted
C1_Witness ==
    /\ pc = "break_check"
    /\ chunk_tool_calls
    /\ due # {}
    /\ emitted_idx = <<>>
    /\ tool_buffers # <<>>

(* C2: the tool_call events of one flush are emitted in increasing
   slot-index order, whatever the order in which the indices first
   arrived. *)
C2_AscendingIndexOrder ==
    \A i \in 1..Len(emitted_idx) : \A j \in 1..Len(emitted_idx) :
        i < j => emitted_idx[i] < emitted_idx[j]

\* slot 1 received its first delta before slot 0, and the flush emitted
\* slot 1 first
C2_Witness == emitted_idx = <<1, 0>>

(* C4: every delta with non-empty content produces exactly one content
   event with exactly that text, in arrival order, never merged; the event
   is out before the code goes on to the tool deltas of the choice, hence
   before a later chunk is read. *)
C4_ContentUnbuffered ==
    /\ pc # "content" => ContentTexts(StreamEvents) = content_seen
    /\ pc = "content" =>
        ContentTexts(StreamEvents)
            \o (IF Truthy(content) THEN <<content>> ELSE <<>>) = content_seen

\* two deltas with content were read, two content events with their texts
\* went out, and the code is about to read the next chunk
C4_Witness ==
    /\ pc = "iter"
    /\ content_seen = <<Labels[1], Labels[2]>>
    /\ events = <<ContentEvent(Labels[1]), ContentEvent(Labels[2])>>

(* C5: once a chunk contains a choice with a non-empty finish reason other
   than "tool_calls", no later chunk is read from the transport. *)
C5_NoChunkAfterTerminal == ~after_terminal

\* a content event was emitted for a chunk read after a terminal finish
\* reason
C5_Witness == after_terminal /\ pc = "y_content"

(* C6: when the stream is exhausted and no choice ever carried a finish
   reason, _consume_stream ends normally: no exception is in flight or
   raised, the slots still buffered yield no tool_call event; a stream of
   zero chunks yields zero events. *)
C6_ExhaustionIsNormal ==
    /\ exhausted /\ ~ever_finish =>
        /\ pc \in {"finally", "done"}
        /\ exc = NoExc
        /\ SelectSeq(events, IsToolCall) = <<>>
    /\ exhausted /\ ~chunk_read => events = <<>>

\* the stream ended without a finish reason while a slot was buffered, and
\* the generator returned
C6_Witness ==
    /\ pc = "done"
    /\ exhausted
    /\ ~ever_finish
    /\ due # {}
    /\ exc = NoExc

(* C7: once _consume_stream has begun on an opened stream, the stream is
   open only while it is being consumed: when consumption has ended, by
   exhaustion, by the break on a terminal finish reason, by a fault of the
   transport or by the consumer abandoning the generator, it is closed. *)
C7_StreamClosedOnExit ==
    /\ stream = "open" => pc \in ConsumingPcs
    /\ pc \in {"done", "raised", "closed"} /\ stream # "none" =>
        stream = "closed"

\* the consumer abandoned the streaming generator at a yield
C7_Witness ==
    /\ pc = "closed"
    /\ exc.kind = "GeneratorExit"
    /\ ns_start < 0
    /\ events # <<>>
    /\ stream = "closed"

-----------------------------------------------------------------------------
(* Claims about stream_chat and the non-streaming fallback *)

\* the calls of one kind among the calls issued
CallsWith(flag) == SelectSeq(calls, LAMBDA c : c.stream = flag)

(* C9: a stream_chat call issues at most one streaming and at most one
   non-streaming call; when the streaming attempt fails with an OpenAIError
   the retry policy accepts, exactly one non-streaming call follows, and its
   request body is that of the streaming call: same model, messages,
   temperature, tools and tool choice. *)
C9_SingleIdenticalRetry ==
    /\ Len(CallsWith(TRUE)) <= 1
    /\ Len(CallsWith(FALSE)) <= 1
    /\ ( /\ stream_fault.kind = "OpenAIError"
         /\ should_retry_without_stream(stream_fault.msg)
         /\ pc \notin {"finally", "handler", "ns_create"} ) =>
        /\ Len(calls) = 2
        /\ calls[1].stream
        /\ ~calls[2].stream
        /\ calls[2].body = calls[1].body
        /\ calls[2].body.keys = calls[1].body.keys
        /\ calls[2].body.model = calls[1].body.model
        /\ calls[2].body.messages = calls[1].body.messages
        /\ calls[2].body.temperature = calls[1].body.temperature
        /\ calls[2].body.tools = calls[1].body.tools
        /\ calls[2].body.tool_choice = calls[1].body.tool_choice

\* the retried call carried the tools of the streaming call
C9_Witness ==
    /\ pc = "done"
    /\ Len(calls) = 2
    /\ stream_fault = Exc("OpenAIError", MsgUnrecognizedStream)
    /\ "tools" \in calls[2].body.keys
    /\ Len(calls[2].body.tools) = 2

(* C10: for each message of the completion, the events are the content
   event, if the content is non-empty, followed by one tool_call event per
   tool call in the tool calls' order; a message with content and two tool
   calls yields exactly content, tool_call, tool_call. *)
C10_ContentThenToolCalls ==
    pc = "ns_emit" /\ pending = <<>> =>
        LET evs == SubSeq(events, msg_start + 1, Len(events))
            tcs == tool_calls_of(cur_message)
            k == IF Truthy(cur_message.content) THEN 1 ELSE 0
        IN  /\ Len(evs) = k + Len(tcs)
            /\ k = 1 => evs[1] = ContentEvent(cur_message.content)
            /\ \A i \in 1..Len(tcs) :
                /\ evs[k + i].type = "tool_call"
                /\ evs[k + i].id = tcs[i].id
            /\ k = 1 /\ Len(tcs) = 2 =>
                /\ Len(evs) = 3
                /\ <<evs[1].type, evs[2].type, evs[3].type>>
                    = <<"content", "tool_call", "tool_call">>

\* a message with content and the two tool calls call_a, call_b was
\* converted into three events
C10_Witness ==
    /\ pc = "ns_emit"
    /\ pending = <<>>
    /\ Truthy(cur_message.content)
    /\ tool_calls_of(cur_message) = <<CallA, CallB>>
    /\ Len(events) = msg_start + 3
    /\ events[Len(events)].id = "call_b"

(* C11: when the streaming attempt fails with an OpenAIError whose message
   the retry policy rejects, no non-streaming call is issued, the event
   sequence does not end as if successful, and what the caller receives is
   an APIError carrying the message of the fault. *)
C11_RejectedFaultIsAPIError ==
    ( /\ stream_fault.kind = "OpenAIError"
      /\ ~should_retry_without_stream(stream_fault.msg) ) =>
        /\ CallsWith(FALSE) = <<>>
        /\ pc \in {"finally", "handler", "raised"}
        /\ pc = "raised" => exc = Exc("APIError", stream_fault.msg)

\* "invalid api key" was raised while the stream was iterated, after an
\* event had been delivered, and reached the caller as an APIError
C11_Witness ==
    /\ pc = "raised"
    /\ stream_fault = Exc("OpenAIError", MsgInvalidApiKey)
    /\ exc = Exc("APIError", MsgInvalidApiKey)
    /\ events # <<>>
    /\ stream = "closed"

(* C12: every failure of a backend call that the retry does not absorb
   reaches the caller as an APIError: whatever stream_chat raises, the
   user's interrupt aside, is an APIError. *)
C12_OnlyAPIError ==
    pc = "raised" /\ exc.kind # "KeyboardInterrupt" => exc.kind = "APIError"

\* the non-streaming retry call failed with an OpenAIError, and that
\* OpenAIError is what the caller received
C12_Witness ==
    /\ pc = "raised"
    /\ Len(calls) = 2
    /\ stream_fault = Exc("OpenAIError", MsgUnrecognizedStream)
    /\ exc = Exc("OpenAIError", MsgInvalidApiKey)

-----------------------------------------------------------------------------
(* Claims about the conversation loop *)

(* C13: when a turn was aborted, by an interrupt, an APIError, a ToolError
   or another exception, before or after tool-call round trips, the history
   at the next prompt is the history from before the turn's user message:
   as long as the checkpoint, the same messages, none of the aborted
   turn. *)
C13_AbortRestoresHistory ==
    tpc = "input" /\ aborted =>
        /\ Len(session_messages) = history_checkpoint
        /\ session_messages = snapshot
        /\ \A i \in 1..Len(session_messages) :
            session_messages[i].turn # turn

\* the second turn was aborted by a ToolError after its assistant tool-call
\* message and tool results were appended, and the history of the first turn
\* is back
C13_Witness ==
    /\ tpc = "input"
    /\ aborted
    /\ turn = 2
    /\ rounds >= 1
    /\ turn_exc = "ToolError"
    /\ snapshot # <<>>
    /\ session_messages = snapshot

(* C14: every tool-result message of the history carries the id of a tool
   call listed by an assistant tool-call message that stands earlier in the
   history and was added in the same turn. *)
C14_ToolResultAnswersCall ==
    \A i \in 1..Len(session_messages) :
        session_messages[i].role = "tool" =>
            \E j \in 1..(i - 1) :
                /\ session_messages[j].role = "assistant"
                /\ session_messages[j].turn = session_messages[i].turn
                /\ \E k \in 1..Len(session_messages[j].tool_calls) :
                    session_messages[j].tool_calls[k].id
                        = session_messages[i].tool_call_id

\* a turn whose response carried two tool calls left both results in the
\* history
C14_Witness ==
    /\ tpc = "farewell_check"
    /\ Len(session_messages) = 5
    /\ session_messages[2].tool_calls = <<TcTime, TcFarewell>>
    /\ session_messages[3].tool_call_id = "call_1"
    /\ session_messages[4].tool_call_id = "call_2"
    /\ session_messages[5].role = "assistant"

\* the assistant tool-call message and the results of its tool calls are the
\* last messages of the history
ResultsAppended ==
    LET n == Len(collected_tool_calls)
        len == Len(session_messages)
    IN  /\ len > n
        /\ session_messages[len - n].role = "assistant"
        /\ session_messages[len - n].tool_calls = collected_tool_calls
        /\ \A k \in 1..n :
            /\ session_messages[len - n + k].role = "tool"
            /\ session_messages[len - n + k].tool_call_id
                = collected_tool_calls[k].id

\* the safety half of C15
LoopFollowsResponses ==
    /\ tpc = "interact" => last_response \in {"none", "tool_calls"}
    /\ tpc = "interact" /\ last_response = "tool_calls" =>
        collected_tool_calls # <<>> /\ ResultsAppended
    /\ tpc = "tools" =>
        last_response = "tool_calls" /\ collected_tool_calls # <<>>
    /\ tpc = "farewell_check" => last_response = "final"

(* C15: within a turn a further request is issued exactly after a response
   with tool calls, once the assistant tool-call message and the tool
   results are appended; the turn ends at the first response without tool
   calls; and a turn in which no fault occurs comes to its end. *)
C15_LoopUntilFinal ==
    /\ []LoopFollowsResponses
    /\ (tpc = "tools") ~> (tpc \in {"interact", "abort"})
    /\ (tpc = "interact") ~> (tpc \in {"farewell_check", "abort"})

\* a turn ended at its second response, after one round of tool calls
C15_Witness ==
    /\ tpc = "farewell_check"
    /\ rounds = 1
    /\ last_response = "final"
    /\ turn_exc = "none"
    /\ turn = 1

-----------------------------------------------------------------------------
(* Claims about _prepare_tools *)

(* C20: _prepare_tools returns exactly one wire tool, in input order, for
   each spec whose type is "function" and whose name is non-empty, and
   skips every other spec, never raising; a spec without properties gives a wire tool
   whose model has exactly one field, the optional placeholder; the request
   holds tools and tool_choice "auto" iff at least one wire tool was
   produced. *)
C20_PrepareTools ==
    LET wireable == SelectSeq(tools_arg.specs, IsWireable)
    IN  /\ ppc # "raised"
        /\ ppc \in {"prepared", "built"} =>
            /\ Len(prepared) = Len(wireable)
            /\ \A i \in 1..Len(wireable) :
                /\ prepared[i].name = wireable[i].name
                /\ prepared[i].description = wireable[i].description
                /\ wireable[i].properties = <<>> =>
                    /\ Len(prepared[i].model.fields) = 1
                    /\ ~prepared[i].model.fields[1].mandatory
                /\ wireable[i].properties # <<>> =>
                    Len(prepared[i].model.fields)
                        = Len(wireable[i].properties)
        /\ ppc = "built" =>
            /\ "tools" \in tools_request.keys <=> prepared # <<>>
            /\ "tool_choice" \in tools_request.keys <=> prepared # <<>>
            /\ prepared # <<>> =>
                /\ tools_request.tools = prepared
                /\ tools_request.tool_choice = "auto"

\* the one spec given is a function with a name and without properties, and
\* _prepare_tools raised instead of returning a wire tool
C20_Witness ==
    /\ ppc = "raised"
    /\ Len(tools_arg.specs) = 1
    /\ tools_arg.specs[1].type = "function"
    /\ tools_arg.specs[1].name = "get_current_time"
    /\ tools_arg.specs[1].properties = <<>>
    /\ prepared = <<>>

-----------------------------------------------------------------------------
(* Claims about _ToolBuffer.merge_delta *)

(* C17: after any sequence of merge_delta calls the id, the type and the
   name of the buffer each equal the last non-empty value a delta supplied
   for that field; a delta with an empty or missing value leaves the field
   as it is; with no value supplied the id and the name are empty and the
   type is "function"; each field follows its own values only. *)
C17_LastSuppliedValue ==
    /\ mbuf.id = IF mid = None THEN "" ELSE mid
    /\ mbuf.type = IF mtype = None THEN "function" ELSE mtype
    /\ mbuf.name = IF mname = None THEN "" ELSE mname

\* three deltas were merged, ids and a name were supplied and no type: the
\* buffer holds the last id, the name, and the default type
C17_Witness ==
    /\ Len(mfrags) = 3
    /\ mid = "call_b"
    /\ mname = "get_current_time"
    /\ mtype = None
    /\ mbuf.id = "call_b"
    /\ mbuf.name = "get_current_time"
    /\ mbuf.type = "function"

(* C18, as stated: merging the same delta twice in a row leaves the buffer
   as merging it once. *)
C18_Idempotent == mtwice = mbuf

(* C18, amended: merging the same delta twice in a row leaves id, type and
   name as merging it once, and appends the delta's argument fragment a
   second time; so the two buffers are equal exactly when the delta carries
   no arguments. *)
C18_IdempotentButArguments ==
    mfrags # <<>> =>
        /\ mtwice = [mbuf EXCEPT !.arguments = @ \o mfrags[Len(mfrags)]]
        /\ (mtwice = mbuf) <=> (mfrags[Len(mfrags)] = <<>>)

\* a delta with the fragment "{" was merged into a buffer whose arguments
\* already ended with "{": merged twice it would add the fragment again
C18_Witness ==
    /\ Len(mfrags) = 2
    /\ mfrags[1] = <<"{">>
    /\ mfrags[2] = <<"{">>
    /\ mbuf.arguments = <<"{", "{">>
    /\ mtwice.arguments = <<"{", "{", "{">>

-----------------------------------------------------------------------------
(* Claims about the slots of _consume_stream *)

\* the deltas of log addressed to slot index, in arrival order
AddressedTo(log, index) == SelectSeq(log, LAMBDA d : d.index = index)

\* the last non-empty value among vals, or default if there is none
LastSupplied(vals, default) ==
    LET given == SelectSeq(vals, Truthy)
    IN  IF given = <<>> THEN default ELSE given[Len(given)]

\* the tool_call event that the deltas of log addressed to index add up to:
\* the last id and name supplied, the argument fragments in arrival order
ExpectedEvent(log, index) ==
    LET ds == AddressedTo(log, index)
        with_function == SelectSeq(ds, LAMBDA d : d.fn # "none")
    IN  [type |-> "tool_call",
         id |-> LastSupplied([i \in 1..Len(ds) |-> ds[i].id], ""),
         calltype |-> LastSupplied([i \in 1..Len(ds) |-> ds[i].type],
                                   "function"),
         name |-> LastSupplied([i \in 1..Len(with_function) |->
                                  with_function[i].name], ""),
         arguments |-> Concat([i \in 1..Len(with_function) |->
                                 IF TruthySeq(with_function[i].arguments)
                                 THEN with_function[i].arguments
                                 ELSE <<>>])]

(* C16: when a "tool_calls" finish flushes the slots, the event emitted for
   a slot holds the id, the name and the argument fragments of the deltas
   addressed to that slot's index and of no other, the fragments
   concatenated in arrival order; and the flush emits exactly one event per
   index that was addressed. *)
C16_SlotsKeptApart ==
    /\ pc = "y_tool" =>
        events[Len(events)]
            = ExpectedEvent(addressed, emitted_idx[Len(emitted_idx)])
    /\ pc = "flush" /\ flush_pos > Len(tool_buffers) =>
        /\ {emitted_idx[i] : i \in 1..Len(emitted_idx)}
            = {addressed[i].index : i \in 1..Len(addressed)}
        /\ Len(emitted_idx)
            = Cardinality({addressed[i].index : i \in 1..Len(addressed)})

\* deltas arrived in the order slot 0, slot 1, slot 0; the flush has emitted
\* slot 0 with its own id and fragment and now emits slot 1 with its id
C16_Witness ==
    /\ pc = "y_tool"
    /\ Len(addressed) = 3
    /\ <<addressed[1].index, addressed[2].index, addressed[3].index>>
        = <<0, 1, 0>>
    /\ emitted_idx = <<0, 1>>
    /\ Len(events) = 2
    /\ events[1].type = "tool_call"
    /\ events[1].id = Labels[2]
    /\ events[1].arguments = <<Labels[4]>>
    /\ events[2].id = Labels[3]
    /\ events[2].arguments = <<>>

(* C19: a slot index used before a flush starts from a fresh buffer when it
   is addressed again: every buffer of the slot map, at any moment, holds
   what the deltas addressed to its index since the last flush add up to,
   so an event of a later flush holds nothing that arrived before the
   earlier one. *)
C19_FreshAfterFlush ==
    /\ \A i \in 1..Len(tool_buffers) :
        to_event(tool_buffers[i].buffer)
            = ExpectedEvent(addressed, tool_buffers[i].index)
    /\ pc = "break_check" /\ any_tool_calls(finish_reasons) =>
        tool_buffers = <<>>

\* slot 0 was flushed with an id, was addressed again by a single argument
\* fragment in a later chunk, and the later flush emits only that fragment
C19_Witness ==
    /\ pc = "y_tool"
    /\ 0 \in flushed_idx
    /\ emitted_idx = <<0>>
    /\ Len(events) = 2
    /\ events[1].type = "tool_call"
    /\ events[1].id = Labels[2]
    /\ events[2].id = ""
    /\ events[2].arguments = <<Labels[4]>>

-----------------------------------------------------------------------------
(* Claims about the non-streaming retry *)

(* C21: the non-streaming call of a stream_chat call is made only when no
   event of the streaming attempt was delivered to the caller, also when
   the fault is raised while the stream is iterated. *)
C21_RetryOnlyBeforeEvents == ns_start >= 0 => ns_start = 0

\* the caller received a content event of the stream, the iteration then
\* failed with a fault the retry policy accepts, and the events of the
\* completion followed, content first
C21_Witness ==
    /\ pc = "done"
    /\ ns_start = 1
    /\ Len(events) >= 2
    /\ events[1].type = "content"
    /\ events[2].type = "content"
    /\ stream_fault.kind = "OpenAIError"
    /\ Len(calls) = 2

-----------------------------------------------------------------------------
(* Claims about the farewell flag *)

(* C22: when main asks consume_farewell_request after a turn and the flag is
   set, so that the session ends, register_farewell ran during that same
   turn; a flag set in a turn that was aborted does not end the session
   after a later turn. *)
C22_FarewellOfThisTurn ==
    tpc = "farewell_check" /\ farewell_requested => farewell_turn = turn

\* register_farewell ran in the first turn, which was aborted and rolled
\* back; the second turn got a final response without any tool call, and
\* the flag is still set when main asks for it
C22_Witness ==
    /\ tpc = "farewell_check"
    /\ farewell_requested
    /\ farewell_turn = 1
    /\ turn = 2
    /\ rounds = 0
    /\ Len(session_messages) = 2

-----------------------------------------------------------------------------
(* Claims about the history sent to the backend *)

\* message i of msgs is a tool-result message
IsToolResult(msgs, i) == i \in 1..Len(msgs) /\ msgs[i].role = "tool"

\* message i of msgs is an assistant message that lists tool calls
ListsToolCalls(msgs, i) ==
    msgs[i].role = "assistant" /\ msgs[i].tool_calls # <<>>

\* every assistant tool-call message is followed at once by one result per
\* tool call, in the calls' order and with the calls' ids, and by no further
\* result; and every result stands in such a run
WellFormedHistory(msgs) ==
    /\ \A i \in 1..Len(msgs) :
        ListsToolCalls(msgs, i) =>
            LET n == Len(msgs[i].tool_calls)
            IN  /\ i + n <= Len(msgs)
                /\ \A k \in 1..n :
                    /\ IsToolResult(msgs, i + k)
                    /\ msgs[i + k].tool_call_id = msgs[i].tool_calls[k].id
                /\ ~IsToolResult(msgs, i + n + 1)
    /\ \A j \in 1..Len(msgs) :
        IsToolResult(msgs, j) =>
            \E i \in 1..(j - 1) :
                /\ ListsToolCalls(msgs, i)
                /\ j <= i + Len(msgs[i].tool_calls)

(* C23: whenever stream_chat is about to be called by the conversation loop,
   the history it is given is well-formed: each assistant tool-call message
   is followed at once by exactly one tool-result message per tool call, in
   order and with matching ids; no tool call lacks its result. *)
C23_HistoryWellFormed ==
    tpc = "interact" => WellFormedHistory(session_messages)

\* the second request of a turn, after a response with two tool calls whose
\* results both stand in the history, and after the first turn was aborted
\* and rolled back (the history is kept between turns and starts with the
\* second turn's user message)
C23_Witness ==
    /\ tpc = "interact"
    /\ turn = 2
    /\ rounds = 1
    /\ ~no_history
    /\ session_messages[1].turn = 2
    /\ Len(session_messages) = 4
    /\ session_messages[2].tool_calls = <<TcTime, TcFarewell>>
    /\ session_messages[3].tool_call_id = "call_1"
    /\ session_messages[4].tool_call_id = "call_2"

-----------------------------------------------------------------------------
(* Claims about the transport during the retry *)

\* the positions of stream_chat from the non-streaming call to the last
\* event of its completion
NonStreamPcs == {"ns_create", "ns_choice", "ns_emit", "ns_yield"}

(* C24: while the non-streaming call of a stream_chat call is about to be
   issued, is in flight or is being turned into events, no streaming
   transport is open: a stream that was opened has been closed. *)
C24_ClosedBeforeRetry ==
    pc \in NonStreamPcs =>
        /\ stream \in {"none", "closed"}
        /\ chunk_read => stream = "closed"

\* the stream delivered a chunk, the next read raised a fault the retry
\* policy accepts, and the non-streaming call is about to be issued with the
\* stream closed
C24_Witness ==
    /\ pc = "ns_create"
    /\ chunk_read
    /\ stream_fault.kind = "OpenAIError"
    /\ stream = "closed"
    /\ Len(calls) = 1

=============================================================================
